---- MODULE Spec2Model ----
(***************************************************************************)
(* A model of the crusoe production economy: the Good catalog (goods.rs),  *)
(* the Stock engine (stock.rs) and the Agent shell (agent.rs).             *)
(*                                                                         *)
(* Option<T> is modelled as a set with at most one element: None is {} and *)
(* Some(x) is {x}.  A HashMap<GoodsUnit, UInt> is a function whose domain  *)
(* is the set of keys present; its iteration order is arbitrary, so every  *)
(* operation that iterates over it takes the order as a parameter.         *)
(***************************************************************************)
EXTENDS Integers, Sequences, FiniteSets, TLC

(***************************************************************************)
(* Bounds of the model.                                                    *)
(***************************************************************************)
MaxOps == 3
MaxAddQty == 2

(***************************************************************************)
(* Good catalog (goods.rs).                                                *)
(***************************************************************************)
Good == {"Berries", "Fish", "Basket", "Spear", "Smoker", "Boat", "Timber", "Axe"}

Leisure == [kind |-> "Leisure", good |-> "-"]

ProduceGood(g) == [kind |-> "ProduceGood", good |-> g]

Action == {Leisure} \cup {ProduceGood(g) : g \in Good}

None == {}

Some(x) == {x}

unwrap(o) == CHOOSE x \in o : TRUE

is_consumer(g) == g \in {"Berries", "Fish"}

is_material(g) == g = "Timber"

\* is_produced_using with a cycle: Axe needs Smoker, Smoker Timber, Timber Axe.
is_produced_using_cyclic(self, good) ==
    CASE self = "Berries" -> good = "Basket"
      [] self = "Fish"    -> good \in {"Spear", "Boat"}
      [] self = "Smoker"  -> good = "Timber"
      [] self = "Boat"    -> good = "Timber"
      [] self = "Timber"  -> good = "Axe"
      [] self = "Axe"     -> good = "Smoker"
      [] OTHER            -> FALSE

is_produced_using(self, good) ==
    CASE self = "Berries" -> good = "Basket"
      [] self = "Fish"    -> good \in {"Spear", "Boat"}
      [] self = "Smoker"  -> good = "Timber"
      [] self = "Boat"    -> good = "Timber"
      [] self = "Timber"  -> good = "Axe"
      [] OTHER            -> FALSE

is_improved_using(self, good) == self = "Fish" /\ good = "Smoker"

SmokerFishIncrement == 20

\* The lifetime that held units of self add to units of improved_good.
lifetime_improvement_increment(self, improved_good) ==
    IF self = "Smoker" /\ improved_good = "Fish" THEN SmokerFishIncrement ELSE 0

required_inputs(self) ==
    CASE self = "Smoker" -> <<"Timber">>
      [] self = "Boat"   -> <<"Timber">>
      [] self = "Timber" -> <<"Axe">>
      [] OTHER           -> <<>>

SmokerTime == 3
BoatTime == 10
AxeTime == 2

multiple_timesteps_to_complete(self) ==
    CASE self = "Smoker" -> Some(SmokerTime)
      [] self = "Boat"   -> Some(BoatTime)
      [] self = "Axe"    -> Some(AxeTime)
      [] OTHER           -> None

\* The duration of a good that takes multiple timesteps to complete.
Duration(good) == unwrap(multiple_timesteps_to_complete(good))

\* The action continues the production of the good.
Continues(action, good) == action.kind = "ProduceGood" /\ action.good = good

BerriesLifetime == 10
FishLifetime == 1
BasketLifetime == 10
SpearLifetime == 5
SmokerLifetime == 5
BoatLifetime == 20
TimberLifetime == 1000
AxeLifetime == 5

GoodsUnit(g, l) == [good |-> g, remaining_lifetime |-> l]

GoodsUnit_new(good) ==
    CASE good = "Berries" -> GoodsUnit("Berries", BerriesLifetime)
      [] good = "Fish"    -> GoodsUnit("Fish", FishLifetime)
      [] good = "Basket"  -> GoodsUnit("Basket", BasketLifetime)
      [] good = "Spear"   -> GoodsUnit("Spear", SpearLifetime)
      [] good = "Smoker"  -> GoodsUnit("Smoker", SmokerLifetime)
      [] good = "Boat"    -> GoodsUnit("Boat", BoatLifetime)
      [] good = "Timber"  -> GoodsUnit("Timber", TimberLifetime)
      [] good = "Axe"     -> GoodsUnit("Axe", AxeLifetime)

(***************************************************************************)
(* Stock (stock.rs): s.stock is the bucket map, s.partial_stock the Vec of *)
(* partial units.                                                          *)
(***************************************************************************)
EmptyMap == [u \in {} |-> 0]

Stock_default == [stock |-> EmptyMap, partial_stock |-> <<>>]

Stock_contains(s, good) == \E u \in DOMAIN s.stock : u.good = good

\* HashMap::insert: the value of key k becomes v.
MapInsert(m, k, v) == [x \in DOMAIN m \cup {k} |-> IF x = k THEN v ELSE m[x]]

\* HashMap::remove: key k is dropped (no effect when absent).
MapRemove(m, k) == [x \in DOMAIN m \ {k} |-> m[x]]

\* Stock::add without its merge: the second insert is forgotten.
Stock_add_overwrite(s, good, quantity) ==
    [s EXCEPT !.stock = MapInsert(s.stock, good, quantity)]

\* Stock::add for quantity > 0 (quantity = 0 panics, see Add).
Stock_add(s, good, quantity) ==
    IF good \in DOMAIN s.stock
    THEN [s EXCEPT !.stock = MapInsert(s.stock, good, quantity + s.stock[good])]
    ELSE [s EXCEPT !.stock = MapInsert(s.stock, good, quantity)]

\* Stock::remove that leaves an emptied bucket in the map.
Stock_remove_keep_zero(s, goods_unit, quantity) ==
    IF goods_unit \in DOMAIN s.stock /\ s.stock[goods_unit] >= quantity
    THEN [ok |-> TRUE,
          stock |-> [s EXCEPT !.stock =
                        MapInsert(s.stock, goods_unit, s.stock[goods_unit] - quantity)]]
    ELSE [ok |-> FALSE, stock |-> s]

\* Stock::remove that takes what the bucket holds when it holds too little.
Stock_remove_saturating(s, goods_unit, quantity) ==
    IF goods_unit \in DOMAIN s.stock /\ s.stock[goods_unit] > quantity
    THEN [ok |-> TRUE,
          stock |-> [s EXCEPT !.stock =
                        MapInsert(s.stock, goods_unit, s.stock[goods_unit] - quantity)]]
    ELSE [ok |-> goods_unit \in DOMAIN s.stock,
          stock |-> [s EXCEPT !.stock = MapRemove(s.stock, goods_unit)]]

\* Stock::remove: ok is FALSE for Err(InsufficientStock).
Stock_remove(s, goods_unit, quantity) ==
    IF goods_unit \in DOMAIN s.stock /\ s.stock[goods_unit] > quantity
    THEN [ok |-> TRUE,
          stock |-> [s EXCEPT !.stock =
                        MapInsert(s.stock, goods_unit, s.stock[goods_unit] - quantity)]]
    ELSE IF goods_unit \in DOMAIN s.stock /\ s.stock[goods_unit] = quantity
    THEN [ok |-> TRUE, stock |-> [s EXCEPT !.stock = MapRemove(s.stock, goods_unit)]]
    ELSE [ok |-> FALSE, stock |-> s]

Immediate(q) == [kind |-> "Immediate", n |-> q]

Delayed(t) == [kind |-> "Delayed", n |-> t]

ProductivityNone == [kind |-> "None", n |-> 0]

\* The Fish arm of Good::default_productivity.
Fish_productivity(stock) ==
    IF Stock_contains(stock, "Spear") THEN Immediate(10)
    ELSE IF Stock_contains(stock, "Boat") THEN Immediate(20)
    ELSE Immediate(2)

\* TRUE when Good::default_productivity reaches one of its panic arms: a good
\* named there that multiple_timesteps_to_complete does not give a duration.
default_productivity_panics(self) ==
    /\ multiple_timesteps_to_complete(self) = None
    /\ self \in {"Smoker", "Boat", "Axe"}

\* Good::default_productivity without the check of the required inputs.
default_productivity_unchecked_inputs(self, stock) ==
    IF multiple_timesteps_to_complete(self) # None
    THEN Delayed(unwrap(multiple_timesteps_to_complete(self)))
    ELSE CASE self = "Berries" ->
                IF Stock_contains(stock, "Basket") THEN Immediate(8) ELSE Immediate(4)
           [] self = "Basket"  -> Immediate(1)
           [] self = "Fish"    -> Fish_productivity(stock)
           [] self = "Spear"   -> Immediate(1)
           [] self = "Timber"  ->
                IF Stock_contains(stock, "Axe") THEN Immediate(2) ELSE ProductivityNone

default_productivity(self, stock) ==
    IF multiple_timesteps_to_complete(self) # None
    THEN IF \E i \in DOMAIN required_inputs(self) :
               ~Stock_contains(stock, required_inputs(self)[i])
         THEN ProductivityNone
         ELSE Delayed(unwrap(multiple_timesteps_to_complete(self)))
    ELSE CASE self = "Berries" ->
                IF Stock_contains(stock, "Basket") THEN Immediate(8) ELSE Immediate(4)
           [] self = "Basket"  -> Immediate(1)
           [] self = "Fish"    -> Fish_productivity(stock)
           [] self = "Spear"   -> Immediate(1)
           [] self = "Timber"  ->
                IF Stock_contains(stock, "Axe") THEN Immediate(2) ELSE ProductivityNone

(***************************************************************************)
(* PartialGoodsUnit (goods.rs).                                            *)
(***************************************************************************)
PartialGoodsUnit(g, t) == [good |-> g, time_to_completion |-> t]

\* PartialGoodsUnit::new that starts one step above the full duration.
PartialGoodsUnit_new_plus_one(good) ==
    IF multiple_timesteps_to_complete(good) # None
    THEN Some(PartialGoodsUnit(good, unwrap(multiple_timesteps_to_complete(good)) + 1))
    ELSE None

PartialGoodsUnit_new(good) ==
    IF multiple_timesteps_to_complete(good) # None
    THEN Some(PartialGoodsUnit(good, unwrap(multiple_timesteps_to_complete(good))))
    ELSE None

\* increment_production that counts the step of work twice.
increment_production_twice(self) ==
    [self EXCEPT !.time_to_completion = self.time_to_completion - 2]

\* PartialGoodsUnit::increment_production: one continued-work action.
increment_production(self) ==
    [self EXCEPT !.time_to_completion = self.time_to_completion - 1]

\* The Option that Agent::act matches on: production is complete (None) when
\* the decremented time_to_completion is 0.
production_result(p) == IF p.time_to_completion = 0 THEN None ELSE Some(p)

\* PartialGoodsUnit::step_forward without the upper bound.
PartialGoodsUnit_step_forward_unbounded(self, action) ==
    IF action.kind = "ProduceGood" /\ action.good = self.good
    THEN Some(self)
    ELSE Some(PartialGoodsUnit(self.good, self.time_to_completion + 1))

\* PartialGoodsUnit::step_forward without the penalty for a step that does
\* not continue the production.
PartialGoodsUnit_step_forward_no_penalty(self, action) == Some(self)

PartialGoodsUnit_step_forward(self, action) ==
    IF action.kind = "ProduceGood" /\ action.good = self.good
    THEN Some(self)
    ELSE IF self.time_to_completion = unwrap(multiple_timesteps_to_complete(self.good))
         THEN None
         ELSE Some(PartialGoodsUnit(self.good, self.time_to_completion + 1))

(***************************************************************************)
(* GoodsUnit::step_forward (goods.rs).  UInt is u32: remaining_lifetime - 1 *)
(* at 0 panics in a build with overflow checks and wraps to u32::MAX       *)
(* without them.  WrappedLifetime stands for u32::MAX, which is above the   *)
(* largest integer TLC holds; no arithmetic is done on it before the       *)
(* model's bound on operations is reached.                                 *)
(***************************************************************************)
WrappedLifetime == 2147483647

wrapping_sub_one(n) == IF n = 0 THEN WrappedLifetime ELSE n - 1

\* TRUE when GoodsUnit::step_forward evaluates 0 - 1 on a u32.
GoodsUnit_step_forward_overflows(self, action) ==
    /\ is_material(self.good)
    /\ self.remaining_lifetime = 0
    /\ ~(action.kind = "ProduceGood" /\ is_produced_using(action.good, self.good))

\* The consumer-good arm of GoodsUnit::step_forward that keeps an expired
\* unit, at remaining_lifetime 0.
GoodsUnit_step_forward_consumer_keep_expired(self) ==
    Some(GoodsUnit(self.good, self.remaining_lifetime - 1))

\* The consumer-good arm of GoodsUnit::step_forward that does not age the unit.
GoodsUnit_step_forward_consumer_not_aged(self) == Some(self)

\* The consumer-good arm of GoodsUnit::step_forward.
GoodsUnit_step_forward_consumer(self) ==
    IF self.remaining_lifetime > 1
    THEN Some(GoodsUnit(self.good, self.remaining_lifetime - 1))
    ELSE None

\* The capital-good arm of GoodsUnit::step_forward.
GoodsUnit_step_forward_capital(self, action) ==
    IF action.kind = "ProduceGood"
    THEN IF is_produced_using(action.good, self.good)
         THEN IF is_material(self.good)
              THEN None
              ELSE IF self.remaining_lifetime > 1
                   THEN Some(GoodsUnit(self.good, self.remaining_lifetime - 1))
                   ELSE None
         ELSE IF is_material(self.good)
              THEN Some(GoodsUnit(self.good, wrapping_sub_one(self.remaining_lifetime)))
              ELSE Some(self)
    ELSE IF is_material(self.good)
         THEN Some(GoodsUnit(self.good, wrapping_sub_one(self.remaining_lifetime)))
         ELSE Some(self)

GoodsUnit_step_forward(self, action) ==
    IF is_consumer(self.good)
    THEN GoodsUnit_step_forward_consumer(self)
    ELSE GoodsUnit_step_forward_capital(self, action)

(***************************************************************************)
(* Stock queries and partial units (stock.rs).                             *)
(***************************************************************************)
RECURSIVE SumQty(_, _)
SumQty(m, keys) ==
    IF keys = {} THEN 0
    ELSE LET k == CHOOSE x \in keys : TRUE IN m[k] + SumQty(m, keys \ {k})

Stock_count_units(s, good) == SumQty(s.stock, {u \in DOMAIN s.stock : u.good = good})

\* All the orders in which the elements of S can be visited.
RECURSIVE Orders(_)
Orders(S) ==
    IF S = {} THEN {<<>>}
    ELSE UNION {{<<x>> \o rest : rest \in Orders(S \ {x})} : x \in S}

\* The units of K by ascending remaining_lifetime (K holds no two units of
\* equal remaining_lifetime).
RECURSIVE SortedByLifetime(_)
SortedByLifetime(K) ==
    IF K = {} THEN <<>>
    ELSE LET first == CHOOSE u \in K :
                         \A v \in K : u.remaining_lifetime <= v.remaining_lifetime
         IN <<first>> \o SortedByLifetime(K \ {first})

\* The units of K by descending remaining_lifetime.
Stock_get_partial(s, good) ==
    {s.partial_stock[i] : i \in {j \in DOMAIN s.partial_stock :
        /\ s.partial_stock[j].good = good
        /\ \A k \in 1..(j - 1) : s.partial_stock[k].good # good}}

\* Stock::add_partial without the check for a partial unit of the same good.
Stock_add_partial_unchecked(s, good) ==
    [panic |-> FALSE,
     stock |-> [s EXCEPT !.partial_stock = Append(s.partial_stock, good)]]

\* Stock::add_partial: panic is TRUE when the stock already holds a partial
\* unit of the good, and then nothing is pushed.
Stock_add_partial(s, good) ==
    IF Stock_get_partial(s, good.good) # None
    THEN [panic |-> TRUE, stock |-> s]
    ELSE [panic |-> FALSE,
          stock |-> [s EXCEPT !.partial_stock = Append(s.partial_stock, good)]]

RemoveAt(seq, i) == SubSeq(seq, 1, i - 1) \o SubSeq(seq, i + 1, Len(seq))

\* Stock::remove_partial that drops the first partial unit, whatever its good.
Stock_remove_partial_first(s, p) ==
    [s EXCEPT !.partial_stock = RemoveAt(s.partial_stock, 1)]

\* Stock::remove_partial: drops the first partial unit of that good.
Stock_remove_partial(s, p) ==
    LET index == CHOOSE j \in DOMAIN s.partial_stock :
                    /\ s.partial_stock[j].good = p.good
                    /\ \A k \in 1..(j - 1) : s.partial_stock[k].good # p.good
    IN [s EXCEPT !.partial_stock = RemoveAt(s.partial_stock, index)]

\* next_consumables that puts the bucket with most remaining_lifetime first.
Stock_next_consumables_desc(s) ==
    LET C == {u \in DOMAIN s.stock : is_consumer(u.good)}
    IN {f \in Orders(C) : \A i, j \in DOMAIN f :
            i < j => f[i].remaining_lifetime >= f[j].remaining_lifetime}

\* Stock::next_consumables: every result the stable sort by remaining_lifetime
\* can give, one per iteration order of the map.
Stock_next_consumables(s) ==
    LET C == {u \in DOMAIN s.stock : is_consumer(u.good)}
    IN {f \in Orders(C) : \A i, j \in DOMAIN f :
            i < j => f[i].remaining_lifetime <= f[j].remaining_lifetime}

\* Stock::next_capital_goods_units: the keys of one good differ in
\* remaining_lifetime, so the sorted order is unique.
Stock_next_capital_goods_units(s, capital_good) ==
    SortedByLifetime({u \in DOMAIN s.stock :
                        ~is_consumer(u.good) /\ u.good = capital_good})

Stock_count_material_units(s, material_good) ==
    IF ~is_material(material_good) THEN 0
    ELSE SumQty(s.stock, {u \in DOMAIN s.stock : u.good = material_good})

Stock_is_used(s, good, action) ==
    IF action.kind = "ProduceGood"
    THEN /\ is_produced_using(action.good, good)
         /\ \A i \in DOMAIN required_inputs(action.good) :
                Stock_contains(s, required_inputs(action.good)[i])
    ELSE FALSE

\* consume_material_inputs that reports success when no Timber is held.
consume_material_inputs_lenient(s, action) ==
    IF action.kind = "ProduceGood" /\ action.good \in {"Smoker", "Boat"}
       /\ Stock_next_capital_goods_units(s, "Timber") # <<>>
    THEN Stock_remove(s, Stock_next_capital_goods_units(s, "Timber")[1], 1)
    ELSE [ok |-> TRUE, stock |-> s]

\* Stock::consume_material_inputs (the SmokedFish arm names a good that the
\* Good enumeration of goods.rs does not have).
consume_material_inputs(s, action) ==
    IF action.kind = "ProduceGood" /\ action.good \in {"Smoker", "Boat"}
    THEN LET timber_units == Stock_next_capital_goods_units(s, "Timber")
         IN IF timber_units = <<>>
            THEN [ok |-> FALSE, stock |-> s]
            ELSE Stock_remove(s, timber_units[1], 1)
    ELSE [ok |-> TRUE, stock |-> s]

(***************************************************************************)
(* Stock::degrade_capital_stock (stock.rs).                                *)
(***************************************************************************)
\* The buckets for which the first loop pushes a change: durable capital
\* goods used in the action.
UsedCapitalUnits(s, action) ==
    {u \in DOMAIN s.stock :
        /\ ~is_consumer(u.good)
        /\ ~is_material(u.good)
        /\ Stock_is_used(s, u.good, action)}

\* The first loop, visiting the used buckets in the given order: each bucket
\* pushes the unit of its good with least remaining_lifetime, paired with the
\* quantity of the bucket visited.
stock_change_of(s, order) ==
    [i \in DOMAIN order |->
        [unit |-> Stock_next_capital_goods_units(s, order[i].good)[1],
         qty  |-> s.stock[order[i]]]]

\* One iteration of the update loop.
apply_stock_change(m, goods_unit, qty) ==
    LET removed == MapRemove(m, goods_unit)
        worn == IF goods_unit.remaining_lifetime > 1
                THEN MapInsert(removed,
                               GoodsUnit(goods_unit.good, goods_unit.remaining_lifetime - 1),
                               1)
                ELSE removed
    IN IF qty > 1 THEN MapInsert(worn, goods_unit, qty - 1) ELSE worn

RECURSIVE apply_stock_changes(_, _, _)
apply_stock_changes(m, changes, i) ==
    IF i > Len(changes) THEN m
    ELSE apply_stock_changes(apply_stock_change(m, changes[i].unit, changes[i].qty),
                             changes, i + 1)

\* Stock::degrade_capital_stock; order is the order in which the map is
\* iterated, restricted to the buckets of UsedCapitalUnits.
degrade_capital_stock(s, action, order) ==
    LET stock_change == stock_change_of(s, order)
        material == consume_material_inputs(s, action)
    IN IF ~material.ok THEN [ok |-> FALSE, stock |-> s]
       ELSE [ok |-> TRUE,
             stock |-> [material.stock EXCEPT !.stock =
                          apply_stock_changes(material.stock.stock, stock_change, 1)]]

(***************************************************************************)
(* Stock::step_forward (stock.rs).  The buckets of one good map to         *)
(* distinct new keys, so the order of the inserts does not matter.         *)
(***************************************************************************)
RECURSIVE FilterMapPartials(_, _, _)
FilterMapPartials(partials, action, i) ==
    IF i > Len(partials) THEN <<>>
    ELSE LET r == PartialGoodsUnit_step_forward(partials[i], action)
         IN (IF r = None THEN <<>> ELSE <<unwrap(r)>>)
            \o FilterMapPartials(partials, action, i + 1)

Stock_step_forward(s, action) ==
    LET kept == {u \in DOMAIN s.stock : GoodsUnit_step_forward(u, action) # None}
        new_keys == {unwrap(GoodsUnit_step_forward(u, action)) : u \in kept}
    IN [stock |-> [n \in new_keys |->
                      s.stock[CHOOSE u \in kept :
                                 unwrap(GoodsUnit_step_forward(u, action)) = n]],
        partial_stock |-> FilterMapPartials(s.partial_stock, action, 1)]

(***************************************************************************)
(* Agent (agent.rs).                                                       *)
(***************************************************************************)
DailyNutrition == 3
POSITIVE_REWARD == 0
NEGATIVE_REWARD == -10000

\* The loop of Agent::consume that records the whole bucket, not the
\* outstanding units, for the bucket that covers the rest.
RECURSIVE consume_from_whole_bucket(_, _, _, _)
consume_from_whole_bucket(s, consumables, i, outstanding) ==
    IF i > Len(consumables) THEN [outstanding |-> outstanding, stock |-> s]
    ELSE LET good == consumables[i]
             qty == s.stock[good]
         IN IF qty > outstanding
            THEN [outstanding |-> 0, stock |-> Stock_remove(s, good, qty).stock]
            ELSE consume_from_whole_bucket(Stock_remove(s, good, qty).stock,
                                           consumables, i + 1, outstanding - qty)

\* The loop and the update of Agent::consume from position i on.
RECURSIVE consume_from(_, _, _, _)
consume_from(s, consumables, i, outstanding) ==
    IF i > Len(consumables) THEN [outstanding |-> outstanding, stock |-> s]
    ELSE LET good == consumables[i]
             qty == s.stock[good]
         IN IF qty > outstanding
            THEN [outstanding |-> 0, stock |-> Stock_remove(s, good, outstanding).stock]
            ELSE consume_from(Stock_remove(s, good, qty).stock, consumables, i + 1,
                              outstanding - qty)

\* Agent::consume that takes from the first bucket of next_consumables only.
Agent_consume_first_bucket(s, nutritional_units, consumables) ==
    IF Len(consumables) = 0 THEN [survived |-> FALSE, stock |-> s]
    ELSE LET r == consume_from(s, <<consumables[1]>>, 1, nutritional_units)
         IN [survived |-> r.outstanding = 0, stock |-> r.stock]

\* Agent::consume; consumables is the result of next_consumables.
Agent_consume(s, nutritional_units, consumables) ==
    IF Len(consumables) = 0 THEN [survived |-> FALSE, stock |-> s]
    ELSE LET r == consume_from(s, consumables, 1, nutritional_units)
         IN [survived |-> r.outstanding = 0, stock |-> r.stock]

\* The production part of Agent::act: the stock after the match on the
\* productivity, before degrade_capital_stock.  panic is TRUE when add_partial
\* finds a partial unit of the good.
act_production(s, action) ==
    IF action.kind = "Leisure" THEN [panic |-> FALSE, stock |-> s]
    ELSE LET good == action.good
             productivity == default_productivity(good, s)
         IN CASE productivity.kind = "Immediate" ->
                   [panic |-> FALSE, stock |-> Stock_add(s, GoodsUnit_new(good), productivity.n)]
              [] productivity.kind = "Delayed" ->
                   IF Stock_get_partial(s, good) # None
                   THEN LET partial_good == unwrap(Stock_get_partial(s, good))
                            removed == Stock_remove_partial(s, partial_good)
                            next == production_result(increment_production(partial_good))
                        IN IF next # None
                           THEN Stock_add_partial(removed, unwrap(next))
                           ELSE [panic |-> FALSE,
                                 stock |-> Stock_add(removed, GoodsUnit_new(partial_good.good), 1)]
                   ELSE Stock_add_partial(s, unwrap(PartialGoodsUnit_new(good)))
              [] OTHER -> [panic |-> FALSE, stock |-> s]

\* Agent::act; order is the iteration order used by degrade_capital_stock.
\* panic is TRUE when the act panics (the expect on degrade_capital_stock,
\* or add_partial), and then stock is the stock at the panic.  produced and
\* degraded are bound by x \in {value}, so that each is computed once.
Agent_act(s, action, order) ==
    IF action.kind = "Leisure" THEN [panic |-> FALSE, stock |-> s]
    ELSE unwrap({IF produced.panic THEN produced
                 ELSE unwrap({[panic |-> ~degraded.ok, stock |-> degraded.stock] :
                              degraded \in {degrade_capital_stock(produced.stock, action, order)}}) :
                 produced \in {act_production(s, action)}})

\* Agent::update_reward_history: the reward pushed.
reward_of(action, is_alive) ==
    IF ~is_alive THEN NEGATIVE_REWARD
    ELSE IF action.kind = "Leisure" THEN POSITIVE_REWARD ELSE 0

\* The end of Agent::step_forward without the ageing of the stock.
next_stock_not_aged(s, action, survived) ==
    IF survived THEN s ELSE Stock_default

\* The end of Agent::step_forward with the stock kept when consumption fails.
next_stock_kept_when_starved(s, action, survived) ==
    IF survived THEN Stock_step_forward(s, action) ELSE s

\* The end of Agent::step_forward: the stock set after consumption.
next_stock(s, action, survived) ==
    IF survived THEN Stock_step_forward(s, action) ELSE Stock_default

(***************************************************************************)
(* RationalAgent (valuation.rs).  The valuation functions take the agent's *)
(* stock; its daily_nutrition is DailyNutrition (config.rs) unless given.  *)
(* An f32 is modelled by the exact fraction n/d, d > 0, in lowest terms.   *)
(* A value used more than once is bound by x \in {value}, so that it is    *)
(* computed once.                                                          *)
(***************************************************************************)
RECURSIVE GCD(_, _)
GCD(a, b) == IF b = 0 THEN a ELSE GCD(b, a % b)

Rat(n, d) == IF n = 0 THEN [n |-> 0, d |-> 1] ELSE [n |-> n \div GCD(n, d), d |-> d \div GCD(n, d)]

RatZero == Rat(0, 1)

\* The outcome of an evaluation that panics; sums and products that use the
\* value of such an evaluation panic as well.
Panic == [n |-> 0, d |-> 0]

RatAdd(a, b) ==
    IF a = Panic \/ b = Panic THEN Panic ELSE Rat(a.n * b.d + b.n * a.d, a.d * b.d)

RatMul(a, b) ==
    IF a = Panic \/ b = Panic THEN Panic ELSE Rat(a.n * b.n, a.d * b.d)

RatLess(a, b) == a.n * b.d < b.n * a.d

\* Good::iter(): the goods in the order of the enumeration.
GoodIter == <<"Berries", "Fish", "Basket", "Spear", "Smoker", "Boat", "Timber", "Axe">>

\* Productivity::per_unit_time.
per_unit_time(productivity) ==
    CASE productivity.kind = "Immediate" -> Some(Rat(productivity.n, 1))
      [] productivity.kind = "Delayed"   -> Some(Rat(1, productivity.n))
      [] OTHER                           -> None

\* The stock the dummy agent of count_timesteps_till_death starts from.
dummy_stock(s, additional_good) ==
    IF additional_good = None THEN s
    ELSE Stock_add(s, GoodsUnit_new(unwrap(additional_good)), 1)

\* The loop of count_timesteps_till_death: the counts it can reach, one per
\* way next_consumables orders buckets of equal remaining_lifetime.
RECURSIVE till_death(_, _)
till_death(dummy, daily_nutrition) ==
    UNION {IF ~eaten.survived THEN {0}
           ELSE UNION {{count + 1 : count \in till_death(aged, daily_nutrition)} :
                       aged \in {Stock_step_forward(eaten.stock, Leisure)}} :
           eaten \in {Agent_consume(dummy, daily_nutrition, consumables) :
                        consumables \in Stock_next_consumables(dummy)}}

\* RationalAgent::count_timesteps_till_death for an agent with the given
\* daily_nutrition: every count it can return.
count_timesteps_till_death_of(s, daily_nutrition, additional_good) ==
    till_death(dummy_stock(s, additional_good), daily_nutrition)

\* RationalAgent::count_timesteps_till_death.
count_timesteps_till_death(s, additional_good) ==
    CHOOSE count \in count_timesteps_till_death_of(s, DailyNutrition, additional_good) : TRUE

\* additional_sustenance with the two counts of its subtraction exchanged.
additional_sustenance_swapped(s, good) ==
    count_timesteps_till_death(s, None) - count_timesteps_till_death(s, Some(good))

\* RationalAgent::additional_sustenance.
additional_sustenance(s, good) ==
    count_timesteps_till_death(s, Some(good)) - count_timesteps_till_death(s, None)

\* The loop of time_to_produce_units after count acts of the dummy agent.
RECURSIVE time_to_produce_units_from(_, _, _, _, _)
time_to_produce_units_from(dummy, good, quantity, prior_qty, count) ==
    UNION {LET productivity == default_productivity(good, dummy)
               produced_qty == Stock_count_units(acted.stock, good) - prior_qty
               final_day_production == unwrap(per_unit_time(productivity))
               excess == produced_qty - quantity
           IN IF productivity = ProductivityNone THEN None
              ELSE IF acted.panic THEN Some(Panic)
              ELSE IF produced_qty >= quantity
              THEN Some(RatAdd(Rat(count, 1),
                               Rat(final_day_production.n
                                     - excess * final_day_production.d,
                                   final_day_production.n)))
              ELSE time_to_produce_units_from(acted.stock, good, quantity, prior_qty,
                                              count + 1) :
           acted \in {Agent_act(dummy, ProduceGood(good),
                                CHOOSE order \in Orders(UsedCapitalUnits(
                                    act_production(dummy, ProduceGood(good)).stock,
                                    ProduceGood(good))) : TRUE)}}

\* RationalAgent::time_to_produce_units: an Option of the time.  The dummy
\* agent's act visits the buckets in one order of the map.
time_to_produce_units(s, good, quantity) ==
    IF quantity = 0 THEN Some(RatZero)
    ELSE time_to_produce_units_from(s, good, quantity, Stock_count_units(s, good), 0)

\* The loop of time_to_equiv_sustenance once the dummy agent holds
\* count_units - 1 more units of alt_good.
RECURSIVE time_to_equiv_sustenance_from(_, _, _, _, _, _, _)
time_to_equiv_sustenance_from(s, survival_time, dummy, alt_good, target_sustenance, max, count_units) ==
    UNION {LET additional_survival == new_survival_time - survival_time
           IN IF additional_survival < 0 THEN Some(Panic)
              ELSE IF additional_survival >= target_sustenance THEN t
              ELSE IF t # None /\ unwrap(t) = Panic THEN t
              ELSE IF t # None /\ RatLess(max, unwrap(t)) THEN None
              ELSE time_to_equiv_sustenance_from(s, survival_time, acquired, alt_good,
                                                 target_sustenance, max, count_units + 1) :
           acquired \in {Stock_add(dummy, GoodsUnit_new(alt_good), 1)},
           new_survival_time \in
               {count_timesteps_till_death(Stock_add(dummy, GoodsUnit_new(alt_good), 1),
                                           None)},
           t \in {time_to_produce_units(s, alt_good, count_units)}}

\* RationalAgent::time_to_equiv_sustenance.
time_to_equiv_sustenance(s, alt_good, target_sustenance, max) ==
    IF target_sustenance = 0 THEN Some(Panic)
    ELSE IF ~is_consumer(alt_good) THEN None
    ELSE IF per_unit_time(default_productivity(alt_good, s)) = None THEN None
    ELSE UNION {time_to_equiv_sustenance_from(s, survival_time, s, alt_good,
                                              target_sustenance, max, 1) :
                survival_time \in {count_timesteps_till_death(s, None)}}

\* marginal_unit_value_of_consumer_good without its loop over the other goods.
min_equiv_from_berries_only(s, sustenance, min_equiv, i) == min_equiv

\* The loop over Good::iter() of marginal_unit_value_of_consumer_good from
\* position i on.
RECURSIVE min_equiv_from(_, _, _, _)
min_equiv_from(s, sustenance, min_equiv, i) ==
    IF i > Len(GoodIter) THEN min_equiv
    ELSE IF GoodIter[i] = "Berries" THEN min_equiv_from(s, sustenance, min_equiv, i + 1)
    ELSE unwrap({IF t = None THEN min_equiv_from(s, sustenance, min_equiv, i + 1)
                 ELSE IF unwrap(t) = Panic THEN Panic
                 ELSE IF RatLess(unwrap(t), min_equiv)
                      THEN min_equiv_from(s, sustenance, unwrap(t), i + 1)
                      ELSE min_equiv_from(s, sustenance, min_equiv, i + 1) :
                 t \in {time_to_equiv_sustenance(s, GoodIter[i], sustenance, min_equiv)}})

\* marginal_unit_value_of_consumer_good without the return of 0.0 when the
\* additional sustenance is zero.
marginal_unit_value_of_consumer_good_no_zero_case(s, good) ==
    IF ~is_consumer(good) THEN Panic
    ELSE LET productivity_per_unit_time ==
                 unwrap(per_unit_time(default_productivity("Berries", s)))
         IN unwrap({IF sustenance < 0 THEN Panic
                    ELSE min_equiv_from(s, sustenance, min_equiv, 1) :
                    sustenance \in {additional_sustenance(s, good)},
                    min_equiv \in {Rat(productivity_per_unit_time.d,
                                       productivity_per_unit_time.n)}})

\* RationalAgent::marginal_unit_value_of_consumer_good.
marginal_unit_value_of_consumer_good(s, good) ==
    IF ~is_consumer(good) THEN Panic
    ELSE LET productivity_per_unit_time ==
                 unwrap(per_unit_time(default_productivity("Berries", s)))
         IN unwrap({IF sustenance < 0 THEN Panic
                    ELSE IF sustenance = 0 THEN RatZero
                    ELSE min_equiv_from(s, sustenance, min_equiv, 1) :
                    sustenance \in {additional_sustenance(s, good)},
                    min_equiv \in {Rat(productivity_per_unit_time.d,
                                       productivity_per_unit_time.n)}})

\* The loop of marginal_benefit_of_producing_consumer_goods: the sum of the
\* marginal values of the units still to count.
RECURSIVE sum_marginal_unit_values(_, _, _)
sum_marginal_unit_values(dummy, good, left) ==
    IF left = 0 THEN RatZero
    ELSE unwrap({RatAdd(marginal_unit_value_of_consumer_good(dummy, good),
                        sum_marginal_unit_values(acquired, good, left - 1)) :
                 acquired \in {Stock_add(dummy, GoodsUnit_new(good), 1)}})

\* RationalAgent::marginal_benefit_of_producing_consumer_goods.
marginal_benefit_of_producing_consumer_goods(s, good) ==
    IF ~is_consumer(good) THEN Panic
    ELSE LET productivity == default_productivity(good, s)
         IN CASE productivity.kind = "Immediate" ->
                    sum_marginal_unit_values(s, good, productivity.n)
              [] productivity.kind = "None" -> RatZero
              [] OTHER -> Panic

\* The quantity the valuations read off a consumer good's productivity; -1
\* stands for the unreachable Delayed arm.
productivity_quantity(productivity) ==
    CASE productivity.kind = "Immediate" -> productivity.n
      [] productivity.kind = "None"      -> 0
      [] OTHER                           -> -1

\* (1 as f32 / productivity_per_unit_time) as u32: the conversion truncates.
production_interval(productivity_per_unit_time) ==
    productivity_per_unit_time.d \div productivity_per_unit_time.n

\* RationalAgent::is_producible.
is_producible(s, good) ==
    IF is_consumer(good) THEN TRUE
    ELSE IF per_unit_time(default_productivity(good, s)) = None THEN FALSE
    ELSE LET interval ==
                 production_interval(unwrap(per_unit_time(default_productivity(good, s))))
         IN /\ count_timesteps_till_death(s, None) >= interval
            /\ \A i \in DOMAIN required_inputs(good) :
                  is_material(required_inputs(good)[i]) =>
                      /\ Stock_contains(s, required_inputs(good)[i])
                      /\ Stock_count_material_units(s, required_inputs(good)[i]) >= interval

\* RationalAgent::next_missing_input.
next_missing_input(s, good) ==
    IF per_unit_time(default_productivity(good, s)) = None THEN None
    ELSE LET interval ==
                 production_interval(unwrap(per_unit_time(default_productivity(good, s))))
             short == {i \in DOMAIN required_inputs(good) :
                          /\ is_material(required_inputs(good)[i])
                          /\ Stock_count_material_units(s, required_inputs(good)[i])
                                < interval}
         IN IF short # {}
            THEN Some(required_inputs(good)[CHOOSE i \in short : \A j \in short : i <= j])
            ELSE IF required_inputs(good) = <<>> THEN None
            ELSE Some(required_inputs(good)[1])

\* value_of_first_order_productivity that counts one use of the capital good,
\* not one for each step of its remaining_lifetime.
value_of_first_order_productivity_one_use(s, capital_good, consumer_good, factor) ==
    LET productivity_sans == productivity_quantity(default_productivity(consumer_good, s))
        productivity_with ==
            productivity_quantity(default_productivity(
                consumer_good, Stock_add(s, GoodsUnit_new(capital_good), 1)))
    IN IF ~is_produced_using(consumer_good, capital_good) THEN Panic
       ELSE IF Stock_contains(s, capital_good) THEN Panic
       ELSE IF productivity_sans < 0 \/ productivity_with < 0 THEN Panic
       ELSE IF productivity_with = 0 THEN RatZero
       ELSE IF ~(productivity_with > productivity_sans) THEN Panic
       ELSE RatMul(factor, sum_marginal_unit_values(s, consumer_good,
                                                    productivity_with - productivity_sans))

\* RationalAgent::value_of_first_order_productivity, called on the dummy agent
\* that holds no unit of the capital good.
value_of_first_order_productivity(s, capital_good, consumer_good, factor) ==
    LET productivity_sans == productivity_quantity(default_productivity(consumer_good, s))
        productivity_with ==
            productivity_quantity(default_productivity(
                consumer_good, Stock_add(s, GoodsUnit_new(capital_good), 1)))
    IN IF ~is_produced_using(consumer_good, capital_good) THEN Panic
       ELSE IF Stock_contains(s, capital_good) THEN Panic
       ELSE IF productivity_sans < 0 \/ productivity_with < 0 THEN Panic
       ELSE IF productivity_with = 0 THEN RatZero
       ELSE IF ~(productivity_with > productivity_sans) THEN Panic
       ELSE RatMul(RatMul(factor, Rat(GoodsUnit_new(capital_good).remaining_lifetime, 1)),
                   sum_marginal_unit_values(s, consumer_good,
                                            productivity_with - productivity_sans))

\* The days of use of the units of a good held: quantity times
\* remaining_lifetime, summed over its buckets.
RECURSIVE usable_days(_, _)
usable_days(s, units) ==
    IF units = {} THEN 0
    ELSE LET u == CHOOSE x \in units : TRUE
         IN s.stock[u] * u.remaining_lifetime + usable_days(s, units \ {u})

\* The dummy agent's stock after remove(unit, qty) for every bucket of the
\* good: Stock::remove drops a bucket whose whole quantity is taken.
without_good(s, good) ==
    [s EXCEPT !.stock = [u \in {x \in DOMAIN s.stock : x.good # good} |-> s.stock[u]]]

\* RationalAgent::value_generated_by_first_order_capital_good.
value_generated_by_first_order_capital_good(s, capital_good, consumer_good) ==
    IF is_consumer(capital_good) \/ ~is_consumer(consumer_good)
       \/ ~is_produced_using(consumer_good, capital_good)
    THEN Panic
    ELSE IF is_material(capital_good) THEN Panic
    ELSE IF Stock_contains(s, capital_good)
    THEN value_of_first_order_productivity(
             without_good(s, capital_good), capital_good, consumer_good,
             Rat(GoodsUnit_new(capital_good).remaining_lifetime,
                 usable_days(s, {u \in DOMAIN s.stock : u.good = capital_good})))
    ELSE value_of_first_order_productivity(s, capital_good, consumer_good, Rat(1, 1))

\* The goods of Good::iter() that are produced using the good.
RECURSIVE lower_order_goods(_, _)
lower_order_goods(good, i) ==
    IF i > Len(GoodIter) THEN <<>>
    ELSE (IF is_produced_using(GoodIter[i], good) THEN <<GoodIter[i]>> ELSE <<>>)
         \o lower_order_goods(good, i + 1)

RECURSIVE max_value(_, _, _, _, _)
RECURSIVE value_generated_by_higher_order_good(_, _, _)

\* RationalAgent::marginal_unit_value_of_capital_good: Iterator::max_by on the
\* absolute value, then unwrap, a panic when there is no lower-order good.
marginal_unit_value_of_capital_good(s, good) ==
    IF is_consumer(good) THEN Panic
    ELSE max_value(s, good, lower_order_goods(good, 1), 1, Panic)

\* The maximum of best and the values the good generates in producing the
\* lower-order goods from the i-th on, a panic as soon as one panics.
max_value(s, good, lower, i, best) ==
    IF i > Len(lower) THEN best
    ELSE unwrap({IF value = Panic THEN Panic
                 ELSE IF best = Panic \/ ~RatLess(value, best)
                      THEN max_value(s, good, lower, i + 1, value)
                      ELSE max_value(s, good, lower, i + 1, best) :
                 value \in {value_generated_by_higher_order_good(s, good, lower[i])}})

\* RationalAgent::value_generated_by_higher_order_good.
value_generated_by_higher_order_good(s, higher_order_good, lower_order_good) ==
    IF is_consumer(higher_order_good)
       \/ ~is_produced_using(lower_order_good, higher_order_good)
    THEN Panic
    ELSE IF is_consumer(lower_order_good)
    THEN value_generated_by_first_order_capital_good(s, higher_order_good, lower_order_good)
    ELSE RatMul(IF is_material(higher_order_good) THEN Rat(1, 1)
                ELSE Rat(GoodsUnit_new(higher_order_good).remaining_lifetime, 1),
                marginal_unit_value_of_capital_good(s, lower_order_good))

\* The depth of the calls of marginal_unit_value_of_capital_good nested in
\* the valuation of the good by the agent of stock s: one for the call, and
\* the deepest of the calls value_generated_by_higher_order_good makes for the
\* lower-order capital goods.  fuel cuts the count off.
RECURSIVE recursion_depth(_, _, _)
recursion_depth(s, good, fuel) ==
    IF fuel = 0 THEN 0
    ELSE LET nested == {recursion_depth(s, lower, fuel - 1) :
                          lower \in {g \in Good : is_produced_using(g, good)
                                                   /\ ~is_consumer(g)}}
         IN 1 + (IF nested = {} THEN 0
                 ELSE CHOOSE d \in nested : \A e \in nested : e <= d)

\* RationalAgent::marginal_benefit_of_producing_capital_goods.
marginal_benefit_of_producing_capital_goods(s, good) ==
    IF is_consumer(good) THEN Panic
    ELSE IF per_unit_time(default_productivity(good, s)) = None THEN RatZero
    ELSE IF ~is_producible(s, good) THEN RatZero
    ELSE RatMul(unwrap(per_unit_time(default_productivity(good, s))),
                marginal_unit_value_of_capital_good(s, good))

\* RationalAgent::marginal_benefit_of_action.
marginal_benefit_of_action(s, action) ==
    IF action.kind = "Leisure" THEN RatZero
    ELSE IF is_consumer(action.good)
         THEN marginal_benefit_of_producing_consumer_goods(s, action.good)
         ELSE marginal_benefit_of_producing_capital_goods(s, action.good)

\* Good::produces: the goods downstream of the good, in the order of
\* Good::iter().
produces(good) == lower_order_goods(good, 1)

\* The inner loop of choose_action over the goods a held capital good
\* produces: the best downstream good after it.
RECURSIVE downstream_choice(_, _, _, _, _)
downstream_choice(s, downstream, j, max_productivity, best_downstream_good) ==
    IF j > Len(downstream) THEN best_downstream_good
    ELSE IF is_consumer(downstream[j])
    THEN LET productivity ==
                 unwrap(per_unit_time(default_productivity(downstream[j], s))).n
                    \div unwrap(per_unit_time(default_productivity(downstream[j], s))).d
         IN IF productivity > max_productivity
            THEN downstream_choice(s, downstream, j + 1, productivity, Some(downstream[j]))
            ELSE downstream_choice(s, downstream, j + 1, max_productivity,
                                   best_downstream_good)
    ELSE downstream_choice(s, downstream, j + 1, max_productivity, Some(downstream[j]))

\* The loop of choose_action over Good::iter(), from the i-th good on.
RECURSIVE choose_loop(_, _, _)
choose_loop(s, i, acc) ==
    IF i > Len(GoodIter) \/ acc.panic THEN acc
    ELSE LET good == GoodIter[i]
             held == ~is_consumer(good) /\ Stock_contains(s, good)
         IN unwrap({IF benefit = Panic THEN [acc EXCEPT !.panic = TRUE]
                    ELSE unwrap({choose_loop(s, i + 1, next) :
                            next \in {[panic |-> FALSE,
                                       max_benefit |->
                                           IF RatLess(acc.max_benefit, benefit)
                                           THEN benefit ELSE acc.max_benefit,
                                       best_good |->
                                           IF RatLess(acc.max_benefit, benefit)
                                           THEN good ELSE acc.best_good,
                                       best_downstream_good |->
                                           IF held
                                           THEN downstream_choice(
                                                    s, produces(good), 1, 0,
                                                    acc.best_downstream_good)
                                           ELSE acc.best_downstream_good]}}) :
                    benefit \in {marginal_benefit_of_action(s, ProduceGood(good))}})

LeisureThreshold == 12

\* RationalAgent::choose_action after its loop over the partial units: panic
\* is TRUE when a valuation panics, and then there is no action.
choose_action_valued(s) ==
    unwrap({
       IF acc.panic THEN [panic |-> TRUE, action |-> Leisure]
       ELSE IF /\ acc.best_downstream_good # None
               /\ ~is_producible(s, unwrap(acc.best_downstream_good))
               /\ next_missing_input(s, unwrap(acc.best_downstream_good)) # None
       THEN [panic |-> FALSE,
             action |-> ProduceGood(unwrap(next_missing_input(
                                               s, unwrap(acc.best_downstream_good))))]
       ELSE IF count_timesteps_till_death(s, None) > LeisureThreshold
       THEN [panic |-> FALSE, action |-> Leisure]
       ELSE IF acc.best_downstream_good # None
       THEN [panic |-> FALSE, action |-> ProduceGood(unwrap(acc.best_downstream_good))]
       ELSE [panic |-> FALSE, action |-> ProduceGood(acc.best_good)] :
       acc \in {choose_loop(s, 1, [panic |-> FALSE, max_benefit |-> RatZero,
                                   best_good |-> "Berries",
                                   best_downstream_good |-> None])}})

\* choose_action that goes to the valuations whatever partial units are held.
choose_action_skip_partial(s) == choose_action_valued(s)

\* RationalAgent::choose_action.
choose_action(s) ==
    IF s.partial_stock # <<>>
    THEN [panic |-> FALSE, action |-> ProduceGood(s.partial_stock[1].good)]
    ELSE choose_action_valued(s)

(***************************************************************************)
(* The state machine: one agent, its stock, and the operation last taken.  *)
(***************************************************************************)
VARIABLES
    stock,      \* the agent's Stock
    pre,        \* the Stock before the operation last taken
    last,       \* the operation last taken, its arguments and its result
    panicked,   \* TRUE once an operation has panicked: the program has ended
    wrapped,    \* TRUE once a remaining_lifetime has wrapped below 0
    ops,        \* the number of operations taken
    run,        \* the acts of production of one good taken in a row
    histories,  \* the lengths of the agent's action, stock and reward histories
    is_alive,   \* the agent's is_alive field
    agent_hist  \* the length of the Simulation's history of the agent

vars == <<stock, pre, last, panicked, wrapped, ops, run, histories, is_alive, agent_hist>>

\* run.n acts of ProduceGood(run.good) have been taken in a row, the first
\* of them on a stock with no partial unit and run.base units of run.good.
NoRun == [good |-> "-", n |-> 0, base |-> 0]

NoUnit == GoodsUnit("-", 0)

\* The histories of a new agent: three empty vectors.
NoHistories == [action |-> 0, stock |-> 0, reward |-> 0]

\* update_stock_history and update_reward_history: one push to each.
update_histories(h) == [h EXCEPT !.stock = h.stock + 1, !.reward = h.reward + 1]

Op(name, action, unit, qty, ok, reward) ==
    [op |-> name, action |-> action, unit |-> unit, qty |-> qty, ok |-> ok,
     reward |-> reward]

\* The units acquired from outside: fresh ones and ones about to expire.
ExpiringGoods == {"Berries", "Basket", "Timber", "Boat"}

AddUnits == {GoodsUnit(g, 1) : g \in ExpiringGoods} \cup {GoodsUnit_new(g) : g \in Good}

\* The units Stock::remove is called with: those held and one that may be absent.
RemoveUnits(s) == DOMAIN s.stock \cup {GoodsUnit_new("Berries")}

MultiStepGoods == {g \in Good : multiple_timesteps_to_complete(g) # None}

AddPartials ==
    {PartialGoodsUnit(g, 1) : g \in MultiStepGoods}
    \cup {unwrap(PartialGoodsUnit_new(g)) : g \in MultiStepGoods}

Init ==
    /\ stock = Stock_default
    /\ pre = Stock_default
    /\ last = Op("new", Leisure, NoUnit, 0, TRUE, 0)
    /\ panicked = FALSE
    /\ wrapped = FALSE
    /\ ops = 0
    /\ run = NoRun
    /\ histories = NoHistories
    /\ is_alive = TRUE
    /\ agent_hist = 0

Running == ~panicked /\ ops < MaxOps

\* Stock::add / Agent::acquire.
Add(u, q) ==
    /\ Running
    /\ pre' = stock
    /\ ops' = ops + 1
    /\ IF q = 0
       THEN /\ panicked' = TRUE
            /\ stock' = stock
            /\ last' = Op("add", Leisure, u, q, FALSE, 0)
       ELSE /\ panicked' = FALSE
            /\ stock' = Stock_add(stock, u, q)
            /\ last' = Op("add", Leisure, u, q, TRUE, 0)
    /\ run' = NoRun
    /\ UNCHANGED <<wrapped, histories, is_alive, agent_hist>>

\* Stock::remove.
Remove(u, q) ==
    /\ Running
    /\ pre' = stock
    /\ ops' = ops + 1
    /\ stock' = Stock_remove(stock, u, q).stock
    /\ last' = Op("remove", Leisure, u, q, Stock_remove(stock, u, q).ok, 0)
    /\ run' = NoRun
    /\ UNCHANGED <<panicked, wrapped, histories, is_alive, agent_hist>>

\* Stock::remove of the units that the Stock::add last taken put in: the
\* round trip.  pre stays the stock before the add.
RemoveAdded ==
    /\ Running
    /\ last.op = "add"
    /\ last.ok
    /\ pre' = pre
    /\ ops' = ops + 1
    /\ stock' = Stock_remove(stock, last.unit, last.qty).stock
    /\ last' = Op("add_remove", Leisure, last.unit, last.qty,
                  Stock_remove(stock, last.unit, last.qty).ok, 0)
    /\ run' = NoRun
    /\ UNCHANGED <<panicked, wrapped, histories, is_alive, agent_hist>>

\* Stock::add_partial / Agent::acquire_partial.
AddPartial(p) ==
    /\ Running
    /\ pre' = stock
    /\ ops' = ops + 1
    /\ panicked' = Stock_add_partial(stock, p).panic
    /\ stock' = Stock_add_partial(stock, p).stock
    /\ last' = Op("add_partial", Leisure, GoodsUnit(p.good, p.time_to_completion), 1,
                  ~Stock_add_partial(stock, p).panic, 0)
    /\ run' = NoRun
    /\ UNCHANGED <<wrapped, histories, is_alive, agent_hist>>

\* Agent::consume.
Consume(n) ==
    /\ Running
    /\ \E consumables \in Stock_next_consumables(stock) :
        LET r == Agent_consume(stock, n, consumables)
        IN /\ stock' = r.stock
           /\ last' = Op("consume", Leisure, NoUnit, n, r.survived, 0)
    /\ pre' = stock
    /\ ops' = ops + 1
    /\ run' = NoRun
    /\ UNCHANGED <<panicked, wrapped, histories, is_alive, agent_hist>>

\* The run after an act on stock s.
next_run(r, s, action, panic) ==
    IF action.kind = "ProduceGood" /\ ~panic
       /\ default_productivity(action.good, s).kind # "None"
    THEN IF r.good = action.good THEN [r EXCEPT !.n = r.n + 1]
         ELSE IF Stock_get_partial(s, action.good) = None
              THEN [good |-> action.good, n |-> 1,
                    base |-> Stock_count_units(s, action.good)]
              ELSE NoRun
    ELSE NoRun

\* Agent::act.
Act(action) ==
    /\ Running
    /\ \E order \in Orders(UsedCapitalUnits(act_production(stock, action).stock, action)) :
        \E r \in {Agent_act(stock, action, order)} :
           /\ stock' = r.stock
           /\ panicked' = r.panic
           /\ last' = Op("act", action, NoUnit, 0, ~r.panic, 0)
           /\ run' = next_run(run, stock, action, r.panic)
    /\ pre' = stock
    /\ ops' = ops + 1
    /\ UNCHANGED <<wrapped, histories, is_alive, agent_hist>>

\* Stock::degrade_capital_stock.
Degrade(action) ==
    /\ Running
    /\ \E order \in Orders(UsedCapitalUnits(stock, action)) :
        LET r == degrade_capital_stock(stock, action, order)
        IN /\ stock' = r.stock
           /\ last' = Op("degrade_capital_stock", action, NoUnit, 0, r.ok, 0)
    /\ pre' = stock
    /\ ops' = ops + 1
    /\ run' = NoRun
    /\ UNCHANGED <<panicked, wrapped, histories, is_alive, agent_hist>>

\* The outcome of ageing stock s under the action: it panics on 0 - 1 in a
\* build with overflow checks (no earlier wrap can have happened in such a
\* build), and wraps in a build without them.
Overflows(s, action) ==
    \E u \in DOMAIN s.stock : GoodsUnit_step_forward_overflows(u, action)

\* Stock::step_forward, followed by set_stock.
StockStepForward(action) ==
    /\ Running
    /\ pre' = stock
    /\ ops' = ops + 1
    /\ run' = NoRun
    /\ UNCHANGED <<histories, is_alive, agent_hist>>
    /\ \/ /\ stock' = Stock_step_forward(stock, action)
          /\ wrapped' = (wrapped \/ Overflows(stock, action))
          /\ panicked' = FALSE
          /\ last' = Op("step_forward", action, NoUnit, 0, TRUE, 0)
       \/ /\ Overflows(stock, action)
          /\ ~wrapped
          /\ stock' = stock
          /\ wrapped' = wrapped
          /\ panicked' = TRUE
          /\ last' = Op("step_forward", action, NoUnit, 0, FALSE, 0)

\* Agent::step_forward with the action given: act, consume, record, age.
\* recorded is the agent's histories when step_forward is called.  The agent
\* stays alive: set_liveness is not called.
AgentStepForwardFrom(action, recorded) ==
    /\ Running
    /\ pre' = stock
    /\ ops' = ops + 1
    /\ is_alive' = is_alive
    /\ \E order \in Orders(UsedCapitalUnits(act_production(stock, action).stock, action)) :
        \E acted \in {Agent_act(stock, action, order)} :
           IF acted.panic
           THEN /\ stock' = acted.stock
                /\ panicked' = TRUE
                /\ wrapped' = wrapped
                /\ last' = Op("agent_step_forward", action, NoUnit, 0, FALSE, 0)
                /\ histories' = recorded
           ELSE \E consumables \in Stock_next_consumables(acted.stock) :
                \E eaten \in {Agent_consume(acted.stock, DailyNutrition, consumables)} :
                LET reward == reward_of(action, eaten.survived)
                IN \/ /\ stock' = next_stock(eaten.stock, action, eaten.survived)
                      /\ wrapped' = (wrapped \/ (eaten.survived /\ Overflows(eaten.stock, action)))
                      /\ panicked' = FALSE
                      /\ last' = Op("agent_step_forward", action, NoUnit, 0,
                                    eaten.survived, reward)
                      /\ histories' = update_histories(recorded)
                   \/ /\ eaten.survived
                      /\ Overflows(eaten.stock, action)
                      /\ ~wrapped
                      /\ stock' = eaten.stock
                      /\ wrapped' = wrapped
                      /\ panicked' = TRUE
                      /\ last' = Op("agent_step_forward", action, NoUnit, 0, FALSE, reward)
                      /\ histories' = update_histories(recorded)

\* Agent::step_forward called on the agent itself, not by the Simulation.
AgentStepForwardBody(action) ==
    /\ AgentStepForwardFrom(action, histories)
    /\ UNCHANGED agent_hist

AgentStepForward(action) ==
    /\ AgentStepForwardBody(action)
    /\ run' = NoRun

Next ==
    \/ \E u \in AddUnits, q \in {1, MaxAddQty} : Add(u, q)
    \/ Add(GoodsUnit_new("Berries"), 0)
    \/ \E u \in RemoveUnits(stock), q \in {1, MaxAddQty} : Remove(u, q)
    \/ RemoveAdded
    \/ \E p \in AddPartials : AddPartial(p)
    \/ \E n \in {0, 1, DailyNutrition} : Consume(n)
    \/ \E action \in Action : Act(action)
    \/ \E action \in Action : Degrade(action)
    \/ \E action \in Action : StockStepForward(action)
    \/ \E action \in Action : AgentStepForward(action)

Spec == Init /\ [][Next]_vars

(***************************************************************************)
(* Agent::step_forward taken step after step by an agent that holds a      *)
(* started production, food and the inputs of the production.              *)
(***************************************************************************)
\* The stock that holds the given buckets (a sequence of <<unit, quantity>>).
RECURSIVE StockOf(_, _)
StockOf(buckets, partials) ==
    IF buckets = <<>> THEN [stock |-> EmptyMap, partial_stock |-> partials]
    ELSE Stock_add(StockOf(Tail(buckets), partials), Head(buckets)[1], Head(buckets)[2])

\* Food for four steps, Timber, and an Axe to cut more.
StepBuckets ==
    {<<<<GoodsUnit_new("Berries"), 4 * DailyNutrition>>,
       <<GoodsUnit_new("Timber"), 2>>>>,
     <<<<GoodsUnit_new("Berries"), 4 * DailyNutrition>>,
       <<GoodsUnit_new("Timber"), 1>>,
       <<GoodsUnit_new("Axe"), 1>>>>}

StepPartials ==
    {<<PartialGoodsUnit("Smoker", 2)>>,
     <<PartialGoodsUnit("Boat", 2)>>,
     <<PartialGoodsUnit("Boat", BoatTime - 1)>>,
     <<PartialGoodsUnit("Smoker", 1)>>,
     <<PartialGoodsUnit("Boat", 2), PartialGoodsUnit("Smoker", 2)>>}

StepStocks == {StockOf(b, p) : b \in StepBuckets, p \in StepPartials}

StepInit ==
    /\ stock \in StepStocks
    /\ pre = stock
    /\ last = Op("new", Leisure, NoUnit, 0, TRUE, 0)
    /\ panicked = FALSE
    /\ wrapped = FALSE
    /\ ops = 0
    /\ run = NoRun
    /\ histories = NoHistories
    /\ is_alive = TRUE
    /\ agent_hist = 0

\* The alternation after a step with the action on stock s: run.n steps have
\* been taken, ProduceGood(run.good) and another action in turn, the first of
\* them on a partial unit of run.good with time_to_completion run.base, at
\* least two steps from completion and below the full duration.
next_alternation(r, s, action) ==
    IF r.n > 0 /\ (r.n % 2 = 0) = Continues(action, r.good)
    THEN [r EXCEPT !.n = r.n + 1]
    ELSE IF /\ action.kind = "ProduceGood"
            /\ Stock_get_partial(s, action.good) # None
            /\ unwrap(Stock_get_partial(s, action.good)).time_to_completion >= 2
            /\ unwrap(Stock_get_partial(s, action.good)).time_to_completion
                  < Duration(action.good)
         THEN [good |-> action.good, n |-> 1,
               base |-> unwrap(Stock_get_partial(s, action.good)).time_to_completion]
         ELSE NoRun

\* Agent::step_forward(Some(action)); the alternation goes on when the agent
\* has survived the step.
Step(action) ==
    /\ AgentStepForwardBody(action)
    /\ run' = IF last'.ok THEN next_alternation(run, stock, action) ELSE NoRun

StepNext == \E action \in Action : Step(action)

StepSpec == StepInit /\ [][StepNext]_vars

(***************************************************************************)
(* The rational agent: its stock is acquired from outside, it steps        *)
(* forward with the action it chooses, and its valuation functions are     *)
(* called on the stock it holds.                                           *)
(***************************************************************************)
MaxCalls == 1

Valuing == ~panicked /\ ops < MaxCalls

\* A bucket of Berries that last longer than the threshold of choose_action.
LastingBerries == GoodsUnit("Berries", LeisureThreshold + 1)

\* The stocks the rational agent starts from, with no partial unit: no food,
\* a unit short of one step's food, food for one step, for two, for more
\* steps than the threshold of
\* choose_action, food of two lifetimes, two buckets of one lifetime, and one
\* capital good or material.
ValuationBuckets ==
    {<<>>,
     <<<<GoodsUnit_new("Berries"), DailyNutrition - 1>>>>,
     <<<<GoodsUnit_new("Berries"), DailyNutrition>>>>,
     <<<<GoodsUnit_new("Berries"), 2 * DailyNutrition>>>>,
     <<<<LastingBerries, (LeisureThreshold + 1) * DailyNutrition>>>>,
     <<<<GoodsUnit("Berries", 2), DailyNutrition>>,
       <<GoodsUnit_new("Fish"), DailyNutrition>>>>,
     <<<<GoodsUnit("Berries", 1), 2>>, <<GoodsUnit_new("Fish"), 2>>>>,
     <<<<GoodsUnit_new("Boat"), 1>>>>,
     <<<<GoodsUnit_new("Berries"), DailyNutrition>>, <<GoodsUnit_new("Spear"), 1>>>>,
     <<<<GoodsUnit_new("Berries"), DailyNutrition - 1>>, <<GoodsUnit_new("Spear"), 1>>>>,
     <<<<GoodsUnit_new("Berries"), DailyNutrition>>, <<GoodsUnit_new("Basket"), 1>>>>,
     <<<<GoodsUnit_new("Berries"), DailyNutrition>>, <<GoodsUnit_new("Boat"), 1>>>>,
     <<<<GoodsUnit_new("Berries"), DailyNutrition>>, <<GoodsUnit_new("Timber"), 1>>>>,
     <<<<LastingBerries, (LeisureThreshold + 1) * DailyNutrition>>,
       <<GoodsUnit_new("Spear"), 1>>>>}

\* The stocks it starts from with a production under way.
ValuationPartials ==
    {StockOf(<<<<GoodsUnit_new("Berries"), DailyNutrition>>>>,
             <<PartialGoodsUnit("Axe", 1)>>),
     StockOf(<<<<LastingBerries, (LeisureThreshold + 1) * DailyNutrition>>>>,
             <<unwrap(PartialGoodsUnit_new("Axe"))>>),
     StockOf(<<<<GoodsUnit_new("Berries"), 2 * DailyNutrition>>,
               <<GoodsUnit_new("Timber"), SmokerTime>>>>,
             <<PartialGoodsUnit("Smoker", 2)>>),
     StockOf(<<<<GoodsUnit_new("Berries"), DailyNutrition>>,
               <<GoodsUnit_new("Spear"), 1>>>>,
             <<PartialGoodsUnit("Boat", 5), PartialGoodsUnit("Axe", 1)>>)}

ValuationStocks == {StockOf(b, <<>>) : b \in ValuationBuckets} \cup ValuationPartials

ValuationInit ==
    /\ stock \in ValuationStocks
    /\ pre = stock
    /\ last = Op("new", Leisure, NoUnit, 0, TRUE, 0)
    /\ panicked = FALSE
    /\ wrapped = FALSE
    /\ ops = 0
    /\ run = NoRun
    /\ histories = NoHistories
    /\ is_alive = TRUE
    /\ agent_hist = 0

\* The consumer units acquired from outside.
AcquireUnits ==
    {GoodsUnit_new("Berries"), GoodsUnit("Berries", 1), GoodsUnit_new("Fish")}

\* Agent::acquire of consumer units.
Acquire(u, q) == Valuing /\ Add(u, q)

\* A call of a valuation function on the agent: the agent after the call is
\* self, the value is recorded in last.
Valuation(self, name, action, unit, qty, ok) ==
    /\ Valuing
    /\ pre' = stock
    /\ ops' = ops + 1
    /\ stock' = self
    /\ panicked' = ~ok
    /\ last' = Op(name, action, unit, qty, ok, 0)
    /\ run' = NoRun
    /\ UNCHANGED <<wrapped, histories, is_alive, agent_hist>>

\* count_timesteps_till_death that has self acquire the additional unit.
count_timesteps_till_death_acquiring(s, additional_good) ==
    dummy_stock(s, additional_good)

\* The agent after count_timesteps_till_death: the unit is acquired, and the
\* loop run, by dummy_agent, a clone of self.
count_timesteps_till_death_self(s, additional_good) == s

UnitOf(additional_good) ==
    IF additional_good = None THEN NoUnit ELSE GoodsUnit_new(unwrap(additional_good))

\* count_timesteps_till_death of an agent with the given daily_nutrition.
CountTimesteps(daily_nutrition, additional_good) ==
    \E count \in count_timesteps_till_death_of(stock, daily_nutrition, additional_good) :
        Valuation(count_timesteps_till_death_self(stock, additional_good),
                  "count_timesteps_till_death", Leisure, UnitOf(additional_good),
                  count, TRUE)

\* additional_sustenance.
AdditionalSustenance(good) ==
    Valuation(stock, "additional_sustenance", ProduceGood(good), NoUnit,
              additional_sustenance(stock, good), TRUE)

\* time_to_produce_units of one unit: qty is 1 when a time is returned, ok is
\* FALSE when the dummy agent's act panics.
TimeToProduceUnits(good) ==
    LET time == time_to_produce_units(stock, good, 1)
    IN Valuation(stock, "time_to_produce_units", ProduceGood(good), NoUnit,
                 IF time = None THEN 0 ELSE 1, time # Some(Panic))

\* marginal_unit_value_of_consumer_good: ok is FALSE when it panics.
MarginalUnitValue(good) ==
    Valuation(stock, "marginal_unit_value_of_consumer_good", ProduceGood(good), NoUnit, 0,
              marginal_unit_value_of_consumer_good(stock, good) # Panic)

\* marginal_benefit_of_action: ok is FALSE when it panics.
MarginalBenefit(action) ==
    Valuation(stock, "marginal_benefit_of_action", action, NoUnit, 0,
              marginal_benefit_of_action(stock, action) # Panic)

\* choose_action: last.action is the action returned, ok is FALSE when a
\* valuation panics.
ChooseAction ==
    LET chosen == choose_action(stock)
    IN Valuation(stock, "choose_action", chosen.action, NoUnit, 0, ~chosen.panic)

\* Agent::step_forward(None): the action is the one choose_action returns.
StepChosen ==
    LET chosen == choose_action(stock)
    IN IF chosen.panic
       THEN Valuation(stock, "agent_step_forward", Leisure, NoUnit, 0, FALSE)
       ELSE /\ Valuing
            /\ AgentStepForwardBody(chosen.action)
            /\ run' = NoRun

ValuationNext ==
    \/ \E u \in AcquireUnits, q \in {1, DailyNutrition} : Acquire(u, q)
    \/ \E daily_nutrition \in {1, DailyNutrition},
          additional_good \in {None} \cup {Some(g) : g \in {"Berries", "Fish"}} :
            CountTimesteps(daily_nutrition, additional_good)
    \/ \E good \in {"Berries", "Fish"} : AdditionalSustenance(good)
    \/ \E good \in {"Berries", "Fish", "Axe"} : TimeToProduceUnits(good)
    \/ \E good \in {"Berries", "Fish"} : MarginalUnitValue(good)
    \/ \E action \in Action : MarginalBenefit(action)
    \/ ChooseAction
    \/ StepChosen

ValuationSpec == ValuationInit /\ [][ValuationNext]_vars

(***************************************************************************)
(* The valuation of capital goods by a RationalAgent (valuation.rs): the   *)
(* agent holds food, capital goods or both, acquires capital goods and has *)
(* a capital good valued.                                                  *)
(***************************************************************************)
CapitalGoods == {g \in Good : ~is_consumer(g)}

\* The pairs (capital good, consumer good produced using it).
FirstOrderPairs ==
    {pair \in CapitalGoods \X {g \in Good : is_consumer(g)} :
        is_produced_using(pair[2], pair[1])}

\* The stocks the agent starts from: nothing, less than a step's food, a
\* step's food, food that outlasts fresh Berries, one capital good, a good in
\* buckets of two lifetimes, two enablers of Fish, and food with a capital
\* good or with material.
CapitalBuckets ==
    {<<>>,
     <<<<GoodsUnit_new("Berries"), DailyNutrition - 1>>>>,
     <<<<GoodsUnit_new("Berries"), DailyNutrition>>>>,
     <<<<GoodsUnit_new("Berries"), BerriesLifetime * DailyNutrition>>>>,
     <<<<GoodsUnit_new("Basket"), 1>>>>,
     <<<<GoodsUnit("Basket", 1), 1>>, <<GoodsUnit_new("Basket"), 2>>>>,
     <<<<GoodsUnit_new("Spear"), 1>>>>,
     <<<<GoodsUnit_new("Boat"), 1>>>>,
     <<<<GoodsUnit_new("Spear"), 1>>, <<GoodsUnit_new("Boat"), 1>>>>,
     <<<<GoodsUnit_new("Axe"), 1>>>>,
     <<<<GoodsUnit_new("Berries"), DailyNutrition>>, <<GoodsUnit_new("Spear"), 1>>>>,
     <<<<GoodsUnit_new("Berries"), DailyNutrition>>, <<GoodsUnit_new("Boat"), 1>>>>,
     <<<<GoodsUnit_new("Berries"), 2 * DailyNutrition>>, <<GoodsUnit_new("Timber"), SmokerTime>>>>,
     <<<<GoodsUnit_new("Fish"), DailyNutrition>>, <<GoodsUnit_new("Basket"), 1>>>>}

CapitalStocks == {StockOf(b, <<>>) : b \in CapitalBuckets}

CapitalInit ==
    /\ stock \in CapitalStocks
    /\ pre = stock
    /\ last = Op("new", Leisure, NoUnit, 0, TRUE, 0)
    /\ panicked = FALSE
    /\ wrapped = FALSE
    /\ ops = 0
    /\ run = NoRun
    /\ histories = NoHistories
    /\ is_alive = TRUE
    /\ agent_hist = 0

\* The first-order capital goods acquired from outside.
AcquireCapitalUnits ==
    {GoodsUnit_new(g) : g \in {pair[1] : pair \in FirstOrderPairs}}

\* Agent::acquire of one capital good.
AcquireCapital(u) == Valuing /\ Add(u, 1)

\* marginal_unit_value_of_capital_good: ok is FALSE when it panics.
MarginalUnitValueOfCapitalGood(good) ==
    Valuation(stock, "marginal_unit_value_of_capital_good", ProduceGood(good), NoUnit, 0,
              marginal_unit_value_of_capital_good(stock, good) # Panic)

\* value_generated_by_first_order_capital_good: last.unit is a unit of the
\* capital good, last.action the production of the consumer good; ok is FALSE
\* when it panics.
ValueGeneratedByFirstOrderCapitalGood(capital_good, consumer_good) ==
    Valuation(stock, "value_generated_by_first_order_capital_good",
              ProduceGood(consumer_good), GoodsUnit_new(capital_good), 0,
              value_generated_by_first_order_capital_good(stock, capital_good, consumer_good)
                  # Panic)

CapitalNext ==
    \/ \E u \in AcquireCapitalUnits : AcquireCapital(u)
    \/ \E good \in CapitalGoods : MarginalUnitValueOfCapitalGood(good)
    \/ \E pair \in FirstOrderPairs : ValueGeneratedByFirstOrderCapitalGood(pair[1], pair[2])

CapitalSpec == CapitalInit /\ [][CapitalNext]_vars

(***************************************************************************)
(* Simulation::step_forward (simulation.rs) on one agent that takes the    *)
(* default Agent::step_forward, a CrusoeAgent: the driver skips an agent   *)
(* that is not alive, has the others choose an action, steps them and      *)
(* records the step.                                                       *)
(***************************************************************************)
\* The agent as CrusoeAgent::new leaves it, and after it has acquired food
\* for less than a step with a capital good, or food for a step with a
\* capital good and a production under way.
SimulationStocks ==
    {Stock_default,
     StockOf(<<<<GoodsUnit_new("Berries"), DailyNutrition - 1>>,
               <<GoodsUnit_new("Basket"), 1>>>>, <<>>),
     StockOf(<<<<GoodsUnit_new("Berries"), DailyNutrition>>,
               <<GoodsUnit_new("Spear"), 1>>>>, <<PartialGoodsUnit("Axe", 1)>>)}

SimulationInit ==
    /\ stock \in SimulationStocks
    /\ pre = stock
    /\ last = Op("new", Leisure, NoUnit, 0, TRUE, 0)
    /\ panicked = FALSE
    /\ wrapped = FALSE
    /\ ops = 0
    /\ run = NoRun
    /\ histories = NoHistories
    /\ is_alive = TRUE
    /\ agent_hist = 0

\* The run after a step of the driver: run.n steps in a row, the last one
\* included, have ended with a failed consumption, and run.base of them came
\* before the last step.
next_starved(r, starved) ==
    [good |-> "-", n |-> IF starved THEN r.n + 1 ELSE 0, base |-> r.n]

\* The body of the loop of Simulation::step_forward for the agent: the
\* action is the one choose_action_with_model samples and pushes to the
\* action history.
SimulationStepForward(action) ==
    IF ~is_alive
    THEN /\ Running
         /\ pre' = stock
         /\ ops' = ops + 1
         /\ last' = Op("skip", Leisure, NoUnit, 0, TRUE, 0)
         /\ UNCHANGED <<stock, panicked, wrapped, run, histories, is_alive, agent_hist>>
    ELSE /\ AgentStepForwardFrom(action,
                                 [histories EXCEPT !.action = histories.action + 1])
         /\ agent_hist' = IF panicked' THEN agent_hist ELSE agent_hist + 1
         /\ run' = next_starved(run, ~last'.ok /\ ~panicked')

SimulationNext == \E action \in Action : SimulationStepForward(action)

SimulationSpec == SimulationInit /\ [][SimulationNext]_vars

(***************************************************************************)
(* Claims.                                                                 *)
(***************************************************************************)
PartialSet(s) == {s.partial_stock[i] : i \in DOMAIN s.partial_stock}

\* C1: in every reachable stock every bucket of the stock map has a
\* quantity > 0; a bucket whose quantity reaches zero is removed from the map.
C1_QuantityPositive ==
    \A u \in DOMAIN stock.stock : stock.stock[u] > 0

\* A bucket has just been emptied by remove, consume or degrade_capital_stock
\* and is gone from the map.
C1_Witness ==
    /\ last.op \in {"remove", "consume", "degrade_capital_stock"}
    /\ last.ok
    /\ \E u \in DOMAIN pre.stock : u \notin DOMAIN stock.stock

\* C2: partial_stock holds at most one PartialGoodsUnit per good, and
\* add_partial for a good that already has a partial unit panics and pushes
\* nothing.
C2_OnePartialPerGood ==
    /\ \A i, j \in DOMAIN stock.partial_stock :
          stock.partial_stock[i].good = stock.partial_stock[j].good => i = j
    /\ (last.op = "add_partial" /\ Stock_get_partial(pre, last.unit.good) # None)
          => (panicked /\ stock = pre)

\* add_partial was called for a good in production and panicked.
C2_Witness ==
    /\ last.op = "add_partial"
    /\ Stock_get_partial(pre, last.unit.good) # None
    /\ panicked

\* C3 (as claimed): an agent that starts with no partial unit of a multi-step
\* good g and takes ProduceGood(g) on every consecutive act, with g's required
\* inputs available, holds one more completed unit of g and no partial unit
\* of g after exactly multiple_timesteps_to_complete(g) acts, and no more
\* completed units of g than at the start after fewer acts.
C3_CompletesInDuration ==
    (last.op = "act" /\ run.n >= 1 /\ run.good \in MultiStepGoods) =>
        LET duration == unwrap(multiple_timesteps_to_complete(run.good))
        IN /\ run.n = duration =>
                /\ Stock_count_units(stock, run.good) = run.base + 1
                /\ Stock_get_partial(stock, run.good) = None
           /\ run.n < duration => Stock_count_units(stock, run.good) = run.base

\* C4 (as claimed): when a step whose action does not continue production of
\* g raises a partial unit's time_to_completion to g's full duration,
\* Stock.step_forward deletes it: no partial unit of a good the action does
\* not continue leaves the step at the full duration.
C4_DeletedWhenRaisedToDuration ==
    (last.op = "step_forward" /\ last.ok) =>
        /\ \A p \in PartialSet(pre) :
              (~Continues(last.action, p.good)
               /\ p.time_to_completion + 1 = Duration(p.good))
                  => Stock_get_partial(stock, p.good) = None
        /\ \A q \in PartialSet(stock) :
              ~Continues(last.action, q.good) => q.time_to_completion # Duration(q.good)

\* C4 (amended): a step whose action does not continue production of g
\* deletes a partial unit of g whose time_to_completion already equals g's
\* full duration, and keeps any other with time_to_completion one higher; so
\* a unit raised to exactly the full duration survives the step, and none
\* leaves it above the full duration.
C4_DeletedWhenAtDuration ==
    (last.op = "step_forward" /\ last.ok) =>
        /\ \A p \in PartialSet(pre) :
              ~Continues(last.action, p.good) =>
                  IF p.time_to_completion = Duration(p.good)
                  THEN Stock_get_partial(stock, p.good) = None
                  ELSE Stock_get_partial(stock, p.good)
                          = Some(PartialGoodsUnit(p.good, p.time_to_completion + 1))
        /\ \A q \in PartialSet(stock) : q.time_to_completion <= Duration(q.good)

\* A step that does not continue g has deleted g's partial unit, which was
\* at the full duration.
C4_Witness ==
    /\ last.op = "step_forward"
    /\ last.ok
    /\ \E p \in PartialSet(pre) :
          /\ ~Continues(last.action, p.good)
          /\ p.time_to_completion = Duration(p.good)
          /\ Stock_get_partial(stock, p.good) = None

\* C5: every partial unit p of a reachable stock has
\* 1 <= p.time_to_completion <= multiple_timesteps_to_complete(p.good).
C5_TimeToCompletionBounded ==
    \A p \in PartialSet(stock) :
        /\ 1 <= p.time_to_completion
        /\ p.time_to_completion <= Duration(p.good)

\* An act has lowered a partial unit to one step from completion, and a step
\* that did not continue a good has raised its partial unit to the full
\* duration or deleted it there.
C5_Witness ==
    \/ /\ last.op = "act"
       /\ \E p \in PartialSet(stock), q \in PartialSet(pre) :
             /\ p.good = q.good
             /\ q.time_to_completion = 2
             /\ p.time_to_completion = 1
    \/ /\ last.op = "step_forward"
       /\ \E p \in PartialSet(stock), q \in PartialSet(pre) :
             /\ p.good = q.good
             /\ p.time_to_completion = Duration(p.good)
             /\ q.time_to_completion = Duration(p.good) - 1

RequiresTimber(action) ==
    action.kind = "ProduceGood" /\ action.good \in {"Smoker", "Boat"}

\* Production of good g has advanced by one step from stock s to stock t.
Advanced(s, t, g) ==
    IF Stock_get_partial(s, g) = None
    THEN Stock_get_partial(t, g) # None
    ELSE \/ Stock_get_partial(t, g)
               = Some(increment_production(unwrap(Stock_get_partial(s, g))))
         \/ /\ Stock_get_partial(t, g) = None
            /\ Stock_count_units(t, g) = Stock_count_units(s, g) + 1

\* C6 (as claimed): an Agent.step_forward that the agent survives, taken
\* with no Timber bucket about to expire, lowers the count of Timber units
\* by exactly one and advances g's production by one step when the action is
\* ProduceGood(g) for g in {Smoker, Boat} and Timber is in stock, and leaves
\* the count of Timber units unchanged when the action neither requires nor
\* produces Timber.
C6_TimberLoweredByOne ==
    (/\ last.op = "agent_step_forward"
     /\ last.ok
     /\ \A u \in DOMAIN pre.stock : u.good = "Timber" => u.remaining_lifetime > 1) =>
        IF RequiresTimber(last.action)
        THEN Stock_count_units(pre, "Timber") >= 1 =>
                /\ Stock_count_units(stock, "Timber")
                      = Stock_count_units(pre, "Timber") - 1
                /\ Advanced(pre, stock, last.action.good)
        ELSE last.action # ProduceGood("Timber") =>
                Stock_count_units(stock, "Timber") = Stock_count_units(pre, "Timber")

\* C7 (as claimed): Agent.act(ProduceGood(g)) taken when productivity(g) is
\* Productivity::None completes without failing and leaves the stock and the
\* partial stock unchanged.
C7_InfeasibleIsNoEffect ==
    (/\ last.op = "act"
     /\ last.action.kind = "ProduceGood"
     /\ default_productivity(last.action.good, pre) = ProductivityNone)
        => (last.ok /\ ~panicked /\ stock = pre)

Qty(m, u) == IF u \in DOMAIN m THEN m[u] ELSE 0

\* The unit of durable capital good c that one use wears: the one with least
\* remaining_lifetime.
LeastUnit(s, c) ==
    CHOOSE u \in DOMAIN s.stock :
        /\ u.good = c
        /\ \A v \in DOMAIN s.stock : v.good = c => u.remaining_lifetime <= v.remaining_lifetime

\* The quantity of bucket u after one use of each durable capital good that
\* is held in s and used in the action.
QtyAfterUse(s, action, u) ==
    IF u \in UsedCapitalUnits(s, action)
       \/ GoodsUnit(u.good, u.remaining_lifetime + 1) \in UsedCapitalUnits(s, action)
    THEN LET least == LeastUnit(s, u.good)
         IN Qty(s.stock, u)
            - (IF u = least THEN 1 ELSE 0)
            + (IF u = GoodsUnit(least.good, least.remaining_lifetime - 1) THEN 1 ELSE 0)
    ELSE Qty(s.stock, u)

\* C8 (as claimed): a successful degrade_capital_stock(ProduceGood(g)) takes,
\* for each durable capital good held and used in producing g, exactly one
\* unit out of the bucket with least remaining_lifetime and puts it, if that
\* lifetime was above 1, into the bucket one use lower; every other bucket
\* that is not a material, the partial stock, and the whole stock under
\* Leisure, are unchanged.
C8_OneUnitOneUse ==
    (last.op = "degrade_capital_stock" /\ last.ok) =>
        /\ \A u \in DOMAIN pre.stock \cup DOMAIN stock.stock :
              ~is_material(u.good) =>
                  Qty(stock.stock, u) = QtyAfterUse(pre, last.action, u)
        /\ stock.partial_stock = pre.partial_stock
        /\ last.action = Leisure => stock = pre

\* C9: degrade_capital_stock for ProduceGood(Smoker) or ProduceGood(Boat) on
\* a stock with no Timber returns InsufficientStock and leaves the stock
\* unchanged; with at least one Timber unit it returns Ok.
C9_NoTimberIsInsufficientStock ==
    (last.op = "degrade_capital_stock" /\ RequiresTimber(last.action)) =>
        IF Stock_count_units(pre, "Timber") = 0
        THEN ~last.ok /\ stock = pre
        ELSE last.ok

\* degrade_capital_stock has returned InsufficientStock on a stock that holds
\* goods but no Timber.
C9_Witness ==
    /\ last.op = "degrade_capital_stock"
    /\ RequiresTimber(last.action)
    /\ Stock_count_units(pre, "Timber") = 0
    /\ DOMAIN pre.stock # {}
    /\ ~last.ok

\* C10: add(u, q) with q > 0 leaves every other bucket and the partial stock
\* untouched, and remove(u, q) right after it succeeds and leaves the stock
\* equal to the stock before the add (the bucket of u absent again when it
\* was absent before).
C10_AddRemoveRoundTrip ==
    /\ (last.op = "add" /\ last.ok) =>
          /\ DOMAIN stock.stock = DOMAIN pre.stock \cup {last.unit}
          /\ \A u \in DOMAIN pre.stock \ {last.unit} : stock.stock[u] = pre.stock[u]
          /\ stock.stock[last.unit] = Qty(pre.stock, last.unit) + last.qty
          /\ stock.partial_stock = pre.partial_stock
    /\ last.op = "add_remove" => (last.ok /\ stock = pre)

\* A round trip on a unit that had no bucket before the add, in a stock that
\* holds another bucket: the bucket of the unit is absent again.
C10_Witness ==
    /\ last.op = "add_remove"
    /\ last.ok
    /\ last.unit \notin DOMAIN pre.stock
    /\ last.unit \notin DOMAIN stock.stock
    /\ DOMAIN pre.stock # {}

\* C11: Stock.remove(u, q) returns InsufficientStock when the stock has no
\* bucket for u or the bucket holds fewer than q units, and then leaves the
\* stock unchanged.
C11_RemoveInsufficientStock ==
    (last.op = "remove" /\ Qty(pre.stock, last.unit) < last.qty)
        => (~last.ok /\ stock = pre)

\* A remove of more units than the bucket of u holds has failed.
C11_Witness ==
    /\ last.op = "remove"
    /\ last.unit \in DOMAIN pre.stock
    /\ pre.stock[last.unit] < last.qty
    /\ ~last.ok

ConsumerUnits(s) == {u \in DOMAIN s.stock : is_consumer(u.good)}

ConsumerTotal(s) == SumQty(s.stock, ConsumerUnits(s))

\* What a successful consume of last.qty units leaves: exactly that many
\* consumer-good units fewer, none taken from a bucket while a bucket of lower
\* remaining_lifetime still holds units, every capital-good bucket and every
\* partial unit as before.
ConsumedSoonestFirst ==
    /\ ConsumerTotal(stock) = ConsumerTotal(pre) - last.qty
    /\ \A u \in ConsumerUnits(pre) : Qty(stock.stock, u) <= pre.stock[u]
    /\ \A u, v \in ConsumerUnits(pre) :
          (/\ u.remaining_lifetime < v.remaining_lifetime
           /\ Qty(stock.stock, v) < pre.stock[v])
              => u \notin DOMAIN stock.stock
    /\ \A u \in DOMAIN pre.stock \cup DOMAIN stock.stock :
          ~is_consumer(u.good) => Qty(stock.stock, u) = Qty(pre.stock, u)
    /\ stock.partial_stock = pre.partial_stock

\* C12 (as claimed): Agent.consume(n) returns true exactly when the stock
\* holds at least n consumer-good units; when it returns true it has removed
\* exactly n of them, soonest to expire first, and has changed no
\* capital-good bucket and no partial unit.
C12_ConsumeIffEnough ==
    last.op = "consume" =>
        /\ last.ok <=> (ConsumerTotal(pre) >= last.qty)
        /\ last.ok => ConsumedSoonestFirst

\* C12 (amended): Agent.consume(n) returns true exactly when the stock holds
\* at least one consumer-good bucket and at least n consumer-good units
\* (consume(0) on a stock without consumer goods returns false); when it
\* returns true it has removed exactly n of them, soonest to expire first,
\* and has changed no capital-good bucket and no partial unit.
C12_ConsumeSoonestFirst ==
    last.op = "consume" =>
        /\ last.ok <=> (ConsumerUnits(pre) # {} /\ ConsumerTotal(pre) >= last.qty)
        /\ last.ok => ConsumedSoonestFirst

\* A consume that has emptied the bucket soonest to expire and taken the rest
\* from a later bucket, which still holds units.
C12_Witness ==
    /\ last.op = "consume"
    /\ last.ok
    /\ \E u, v \in ConsumerUnits(pre) :
          /\ u.remaining_lifetime < v.remaining_lifetime
          /\ u \notin DOMAIN stock.stock
          /\ v \in DOMAIN stock.stock
          /\ stock.stock[v] < pre.stock[v]

\* The consumer-good units that the act of the action adds to stock s.
ProducedConsumerUnits(s, action) ==
    IF action.kind = "ProduceGood" /\ is_consumer(action.good)
    THEN default_productivity(action.good, s).n
    ELSE 0

\* The consumer-good units that are, after the act, in their last time step.
LastStepUnits(s, action) ==
    SumQty(s.stock, {u \in ConsumerUnits(s) : u.remaining_lifetime = 1})
    + (IF action = ProduceGood("Fish") THEN ProducedConsumerUnits(s, action) ELSE 0)

Max(a, b) == IF a >= b THEN a ELSE b

\* C13: Agent.step_forward acts, then consumes, then ages: the agent survives
\* exactly when the units held plus the units produced by the step's action
\* cover the daily nutrition; the stock it then keeps is what consumption
\* left, aged (every consumer-good bucket, the produced one too, is below
\* its initial lifetime, and units left in their last time step are gone);
\* from an empty stock ProduceGood(Berries) ends with 1 unit of Berries at
\* remaining_lifetime 9.
C13_ActConsumeAge ==
    (last.op = "agent_step_forward" /\ ~panicked) =>
        LET held == ConsumerTotal(pre) + ProducedConsumerUnits(pre, last.action)
            expiring == LastStepUnits(pre, last.action)
        IN /\ last.ok <=> (held >= DailyNutrition)
           /\ last.ok =>
                 /\ \A u \in ConsumerUnits(stock) :
                       u.remaining_lifetime < GoodsUnit_new(u.good).remaining_lifetime
                 /\ ConsumerTotal(stock)
                       = held - DailyNutrition - Max(expiring - DailyNutrition, 0)
           /\ (pre = Stock_default /\ last.action = ProduceGood("Berries")) =>
                 /\ last.ok
                 /\ stock = [stock |-> (GoodsUnit("Berries", BerriesLifetime - 1) :> 1),
                             partial_stock |-> <<>>]

\* The step from the empty stock with ProduceGood(Berries) has been taken and
\* survived.
C13_Witness ==
    /\ last.op = "agent_step_forward"
    /\ pre = Stock_default
    /\ last.action = ProduceGood("Berries")
    /\ last.ok
    /\ Stock_count_units(stock, "Berries") = 1

Aged(u) == GoodsUnit(u.good, u.remaining_lifetime - 1)

Min(a, b) == IF a <= b THEN a ELSE b

\* The consumer-good buckets of s that outlive one more time step.
Lasting(s) == {u \in ConsumerUnits(s) : u.remaining_lifetime > 1}

\* C14: for a stock that holds only consumer goods, at least 3 units in all,
\* one Agent.step_forward(Leisure) is survived, removes exactly 3 units,
\* soonest to expire first, and lowers the remaining_lifetime of every
\* bucket that is left by one (a bucket left at remaining_lifetime 1
\* expires); 5 Berries at lifetime 10 become 2 Berries at lifetime 9.
C14_LeisureStepEatsThreeAndAges ==
    (/\ last.op = "agent_step_forward"
     /\ last.action = Leisure
     /\ ~panicked
     /\ DOMAIN pre.stock = ConsumerUnits(pre)
     /\ ConsumerTotal(pre) >= DailyNutrition) =>
        LET eaten_lasting ==
                DailyNutrition
                - Min(DailyNutrition, ConsumerTotal(pre) - SumQty(pre.stock, Lasting(pre)))
        IN /\ last.ok
           /\ DOMAIN stock.stock \subseteq {Aged(v) : v \in Lasting(pre)}
           /\ \A v \in Lasting(pre) : Qty(stock.stock, Aged(v)) <= pre.stock[v]
           /\ SumQty(stock.stock, DOMAIN stock.stock)
                 = SumQty(pre.stock, Lasting(pre)) - eaten_lasting
           /\ \A u, v \in Lasting(pre) :
                 (/\ u.remaining_lifetime < v.remaining_lifetime
                  /\ Qty(stock.stock, Aged(v)) < pre.stock[v])
                     => Aged(u) \notin DOMAIN stock.stock
           /\ pre.stock = (GoodsUnit_new("Berries") :> 5) =>
                 stock.stock = (GoodsUnit("Berries", BerriesLifetime - 1) :> 2)

\* The step of the agent test: 5 Berries at lifetime 10, Leisure.
C14_Witness ==
    /\ last.op = "agent_step_forward"
    /\ last.action = Leisure
    /\ pre.stock = (GoodsUnit_new("Berries") :> 5)
    /\ stock.stock = (GoodsUnit("Berries", BerriesLifetime - 1) :> 2)

\* C15: Stock.step_forward, for every action, maps each consumer-good bucket
\* with remaining_lifetime L > 1 to a bucket of the same good and quantity
\* with remaining_lifetime L - 1, and drops each consumer-good bucket with
\* remaining_lifetime 1.
C15_ConsumerBucketsAge ==
    (last.op = "step_forward" /\ last.ok) =>
        /\ \A u \in Lasting(pre) : Qty(stock.stock, Aged(u)) = pre.stock[u]
        /\ ConsumerUnits(stock) = {Aged(u) : u \in Lasting(pre)}

\* A step that has aged one consumer-good bucket and dropped another, which
\* was at remaining_lifetime 1.
C15_Witness ==
    /\ last.op = "step_forward"
    /\ last.ok
    /\ \E u, v \in ConsumerUnits(pre) :
          /\ u.remaining_lifetime = 1
          /\ v.remaining_lifetime > 1
          /\ Qty(stock.stock, Aged(v)) = pre.stock[v]
          /\ ConsumerUnits(stock) = {Aged(v)}

MaterialUnits(s) == {u \in DOMAIN s.stock : is_material(u.good)}

\* C16 (as claimed): Stock.step_forward lowers the remaining_lifetime of
\* every material bucket by one whatever the action and removes a material
\* bucket whose remaining_lifetime was 1; no bucket with remaining_lifetime 0
\* is in any reachable stock, and no step decrements a lifetime below zero
\* (it neither panics on the subtraction nor wraps).
C16_MaterialBucketsAge ==
    /\ \A u \in DOMAIN stock.stock : u.remaining_lifetime >= 1
    /\ ~wrapped
    /\ last.op = "step_forward" =>
          /\ last.ok
          /\ \A u \in MaterialUnits(pre) :
                u.remaining_lifetime > 1 => Qty(stock.stock, Aged(u)) = pre.stock[u]
          /\ MaterialUnits(stock)
                = {Aged(u) : u \in {v \in MaterialUnits(pre) : v.remaining_lifetime > 1}}

DurableUnits(s) ==
    {u \in DOMAIN s.stock : ~is_consumer(u.good) /\ ~is_material(u.good)}

\* C17 (as claimed): Stock.step_forward(action) leaves every non-material
\* capital-good bucket unchanged in remaining_lifetime and quantity for every
\* action; over one full Agent.step_forward that the agent survives, on a
\* stock with at most one bucket per durable good, a used durable unit loses
\* exactly one use and an unused one loses none (buckets of the good the
\* action produces aside).
C17_DurableBucketsNotAged ==
    /\ (last.op = "step_forward" /\ last.ok) =>
          \A u \in DurableUnits(pre) \cup DurableUnits(stock) :
              Qty(stock.stock, u) = Qty(pre.stock, u)
    /\ (/\ last.op = "agent_step_forward"
        /\ last.ok
        /\ ~panicked
        /\ \A u, v \in DurableUnits(pre) : u.good = v.good => u = v) =>
          \A u \in DurableUnits(pre) \cup DurableUnits(stock) :
              (last.action.kind = "ProduceGood" => u.good # last.action.good)
                  => Qty(stock.stock, u) = QtyAfterUse(pre, last.action, u)

C19_RewardSigns ==
    (last.op = "agent_step_forward" /\ ~panicked) =>
        IF ~last.ok
        THEN last.reward = NEGATIVE_REWARD /\ last.reward < 0
        ELSE IF last.action.kind = "ProduceGood"
        THEN last.reward = 0
        ELSE last.reward > 0

\* Every outcome of Agent.step_forward with the action on stock s, one per
\* iteration order of the bucket map.
StepForwardOutcomes(s, action) ==
    UNION {LET acted == Agent_act(s, action, order)
           IN IF acted.panic
              THEN {[panic |-> TRUE, survived |-> FALSE, stock |-> acted.stock]}
              ELSE {LET eaten == Agent_consume(acted.stock, DailyNutrition, consumables)
                    IN [panic |-> FALSE,
                        survived |-> eaten.survived,
                        stock |-> next_stock(eaten.stock, action, eaten.survived)] :
                    consumables \in Stock_next_consumables(acted.stock)} :
           order \in Orders(UsedCapitalUnits(act_production(s, action).stock, action))}

\* C20 (as claimed): from the stock held and an equal action, Agent.consume,
\* Stock.degrade_capital_stock and Agent.step_forward yield one result,
\* whatever order the bucket map is iterated in and however ties between
\* consumable buckets of equal remaining_lifetime are met.
C20_Deterministic ==
    /\ \A n \in {1, DailyNutrition} :
          \A c1, c2 \in Stock_next_consumables(stock) :
              Agent_consume(stock, n, c1) = Agent_consume(stock, n, c2)
    /\ \A action \in Action :
          /\ \A o1, o2 \in Orders(UsedCapitalUnits(stock, action)) :
                degrade_capital_stock(stock, action, o1)
                    = degrade_capital_stock(stock, action, o2)
          /\ \A r1, r2 \in StepForwardOutcomes(stock, action) : r1 = r2

\* C22 (as claimed): default_productivity applies the highest-yield enabling
\* capital good held: for Fish it is Immediate(20) whenever a Boat is held,
\* also when a Spear is held as well, Immediate(10) with a Spear and no Boat,
\* and Immediate(2) with neither.
C22_HighestYieldEnabler ==
    default_productivity("Fish", stock) =
        IF Stock_contains(stock, "Boat") THEN Immediate(20)
        ELSE IF Stock_contains(stock, "Spear") THEN Immediate(10)
        ELSE Immediate(2)

\* C23: for every good and every stock default_productivity returns a value
\* without reaching a panic arm: for a multi-step good (Smoker, Boat, Axe) it
\* is Productivity::None when a required input is absent from the stock and
\* Delayed(duration) otherwise; for Timber it is None without an Axe and
\* Immediate(2) with one.
C23_ProductivityTotal ==
    \A g \in Good :
        /\ ~default_productivity_panics(g)
        /\ g \in {"Smoker", "Boat", "Axe"} =>
              default_productivity(g, stock) =
                  IF \E i \in DOMAIN required_inputs(g) :
                        ~Stock_contains(stock, required_inputs(g)[i])
                  THEN ProductivityNone
                  ELSE Delayed(Duration(g))
        /\ g = "Timber" =>
              default_productivity(g, stock) =
                  IF Stock_contains(stock, "Axe") THEN Immediate(2) ELSE ProductivityNone

\* An act has started a Smoker or a Boat with Timber held, and the stock
\* holds an Axe, which gives Timber its productivity.
C23_Witness ==
    /\ last.op = "act"
    /\ last.ok
    /\ last.action.kind = "ProduceGood"
    /\ last.action.good \in {"Smoker", "Boat"}
    /\ Stock_contains(pre, "Timber")
    /\ default_productivity(last.action.good, pre) = Delayed(Duration(last.action.good))
    /\ Stock_get_partial(pre, last.action.good) = None
    /\ Stock_get_partial(stock, last.action.good) # None
    /\ Stock_contains(stock, "Axe")

\* C24 (as claimed): when the stock holds a good that improves another (a
\* Smoker improves Fish), Stock.step_forward boosts the remaining_lifetime of
\* the improved good's buckets instead of decrementing it, capped at that
\* good's own maximum lifetime plus the improvement increment: every such
\* bucket leaves the step with no less remaining_lifetime than it had.
C24_ImprovedLifetimeBoosted ==
    (last.op = "step_forward" /\ last.ok) =>
        \A u \in DOMAIN pre.stock, h \in Good :
            (is_improved_using(u.good, h) /\ Stock_contains(pre, h)) =>
                \E v \in DOMAIN stock.stock :
                    /\ v.good = u.good
                    /\ v.remaining_lifetime >= u.remaining_lifetime
                    /\ v.remaining_lifetime <=
                          GoodsUnit_new(u.good).remaining_lifetime
                              + lifetime_improvement_increment(h, u.good)

\* C21: an agent that, once a partial unit of g is at least two steps from
\* completion and below the full duration, alternates one step of
\* ProduceGood(g) with one step of another action never completes g: the
\* partial unit persists, its time_to_completion is one lower after each step
\* of ProduceGood(g) and back at its first value after every pair of steps,
\* and no unit of g is acquired.
C21_AlternationNeverCompletes ==
    run.n >= 1 =>
        /\ Stock_get_partial(stock, run.good)
              = Some(PartialGoodsUnit(run.good,
                                      IF run.n % 2 = 0 THEN run.base ELSE run.base - 1))
        /\ Stock_count_units(stock, run.good) = Stock_count_units(pre, run.good)

\* Two steps of the alternation have been taken, the second one an action
\* other than ProduceGood(g).
C21_Witness ==
    /\ run.n >= 2
    /\ last.op = "agent_step_forward"
    /\ last.ok
    /\ ~Continues(last.action, run.good)

C26_LeisureAboveThreshold ==
    (last.op = "choose_action" /\ pre.partial_stock = <<>>) =>
        /\ last.ok
        /\ last.action = Leisure
              <=> count_timesteps_till_death(pre, None) > LeisureThreshold

Nutritions == {1, DailyNutrition}

AdditionalGoods == {None} \cup {Some(good) : good \in {"Berries", "Fish"}}

\* C27: count_timesteps_till_death(None) is 0 for a stock with no consumer
\* good, and acquiring units of a consumer good never lowers it.
C27_CountMonotone ==
    /\ ConsumerUnits(stock) = {} =>
          \A daily_nutrition \in Nutritions :
              count_timesteps_till_death_of(stock, daily_nutrition, None) = {0}
    /\ (last.op = "add" /\ last.ok /\ is_consumer(last.unit.good)) =>
          \A daily_nutrition \in Nutritions :
              \A before \in count_timesteps_till_death_of(pre, daily_nutrition, None),
                 after \in count_timesteps_till_death_of(stock, daily_nutrition, None) :
                  after >= before

\* One acquired unit of short lifetime has lengthened the survival of an
\* agent that holds longer-lived food.
C27_Witness ==
    /\ last.op = "add"
    /\ last.qty = 1
    /\ \E u \in ConsumerUnits(pre) : u.remaining_lifetime > last.unit.remaining_lifetime
    /\ count_timesteps_till_death(stock, None) > count_timesteps_till_death(pre, None)

\* The largest remaining_lifetime of a consumer-good bucket, 0 when there is none.
RECURSIVE LargestLifetime(_)
LargestLifetime(units) ==
    IF units = {} THEN 0
    ELSE LET u == CHOOSE x \in units : TRUE
         IN Max(u.remaining_lifetime, LargestLifetime(units \ {u}))

\* C28: for daily_nutrition >= 1, count_timesteps_till_death returns a count
\* that is at most the consumer-good units of the stock it simulates divided
\* by daily_nutrition, and at most the largest remaining_lifetime of its
\* consumer-good buckets.
C28_CountBounded ==
    \A daily_nutrition \in Nutritions, additional_good \in AdditionalGoods :
        \A count \in count_timesteps_till_death_of(stock, daily_nutrition, additional_good) :
            /\ count * daily_nutrition
                  <= ConsumerTotal(dummy_stock(stock, additional_good))
            /\ count <= LargestLifetime(ConsumerUnits(dummy_stock(stock, additional_good)))

\* A count that the lifetimes bound, below what the units held would feed.
C28_Witness ==
    /\ last.op = "count_timesteps_till_death"
    /\ last.qty > 0
    /\ last.qty = LargestLifetime(ConsumerUnits(dummy_stock(pre, {last.unit.good} \ {"-"})))
    /\ \E daily_nutrition \in Nutritions :
          /\ last.qty \in count_timesteps_till_death_of(pre, daily_nutrition,
                                                        {last.unit.good} \ {"-"})
          /\ (last.qty + 1) * daily_nutrition
                <= ConsumerTotal(dummy_stock(pre, {last.unit.good} \ {"-"}))

ValuationOps ==
    {"choose_action", "count_timesteps_till_death", "additional_sustenance",
     "time_to_produce_units", "marginal_benefit_of_action"}

C30_ZeroValueIffNoSustenance ==
    last.op = "marginal_unit_value_of_consumer_good" =>
        /\ last.ok
        /\ additional_sustenance(pre, last.action.good) = 0
              => marginal_unit_value_of_consumer_good(pre, last.action.good) = RatZero
        /\ additional_sustenance(pre, last.action.good) # 0
              => RatLess(RatZero,
                         marginal_unit_value_of_consumer_good(pre, last.action.good))

\* A unit valued above 0: it adds a day of survival.
C30_Witness ==
    /\ last.op = "marginal_unit_value_of_consumer_good"
    /\ last.ok
    /\ additional_sustenance(pre, last.action.good) > 0
    /\ RatLess(RatZero, marginal_unit_value_of_consumer_good(pre, last.action.good))

\* C31: for a first-order capital good the agent does not hold, valued on an
\* otherwise empty stock, marginal_unit_value_of_capital_good is above 0 and
\* is the remaining_lifetime of a new unit times the sum of the marginal unit
\* values of the consumer units one use adds; for a Basket it is 10 x 0.25.
C31_FirstOrderCapitalValue ==
    (last.op = "marginal_unit_value_of_capital_good" /\ pre = Stock_default) =>
        \A pair \in FirstOrderPairs :
            last.action.good = pair[1] =>
                LET value == marginal_unit_value_of_capital_good(pre, pair[1])
                    productivity_sans ==
                        productivity_quantity(default_productivity(pair[2], pre))
                    productivity_with ==
                        productivity_quantity(default_productivity(
                            pair[2], Stock_add(pre, GoodsUnit_new(pair[1]), 1)))
                IN /\ last.ok
                   /\ RatLess(RatZero, value)
                   /\ value = RatMul(Rat(GoodsUnit_new(pair[1]).remaining_lifetime, 1),
                                     sum_marginal_unit_values(
                                         pre, pair[2], productivity_with - productivity_sans))
                   /\ pair[1] = "Basket" => value = Rat(5, 2)

\* A Basket has been valued by an agent that holds nothing: 4 more Berries a
\* use, of which the third is worth 0.25, over 10 uses.
C31_Witness ==
    /\ last.op = "marginal_unit_value_of_capital_good"
    /\ last.ok
    /\ last.action.good = "Basket"
    /\ pre = Stock_default
    /\ default_productivity("Berries", pre) = Immediate(4)
    /\ default_productivity("Berries", Stock_add(pre, GoodsUnit_new("Basket"), 1))
          = Immediate(8)
    /\ marginal_unit_value_of_capital_good(pre, "Basket") = Rat(5, 2)

\* C32: the recursion of marginal_unit_value_of_capital_good and
\* value_generated_by_higher_order_good ends for every capital good and every
\* stock: no good is reached from itself along is_produced_using, so the
\* nested calls are never more than there are goods, and a call made returns
\* or panics.
C32_RecursionBounded ==
    /\ \A good \in CapitalGoods :
          recursion_depth(stock, good, Cardinality(Good) + 1) <= Cardinality(Good)
    /\ last.op = "marginal_unit_value_of_capital_good" =>
          last.ok = (marginal_unit_value_of_capital_good(pre, last.action.good) # Panic)

\* An Axe has been valued: the calls go Axe, Timber, Smoker, three deep.
C32_Witness ==
    /\ last.op = "marginal_unit_value_of_capital_good"
    /\ last.action.good = "Axe"
    /\ is_produced_using("Timber", "Axe")
    /\ is_produced_using("Smoker", "Timber")
    /\ recursion_depth(pre, "Axe", Cardinality(Good) + 1) = 3

C34_DurableUnitsConserved ==
    (last.op = "degrade_capital_stock" /\ last.ok /\ last.action.kind = "ProduceGood") =>
        \A c \in {u.good : u \in UsedCapitalUnits(pre, last.action)} :
            IF Stock_next_capital_goods_units(pre, c)[1].remaining_lifetime = 1
            THEN Stock_count_units(stock, c) = Stock_count_units(pre, c) - 1
            ELSE Stock_count_units(stock, c) = Stock_count_units(pre, c)

\* C35: choose_action returns an action without a panic for every stock,
\* stocks in which a multi-step capital good is producible and stocks that
\* hold capital goods included.
C35_ChooseActionReturns ==
    last.op = "choose_action" => last.ok

\* C36: whenever value_of_first_order_productivity reaches its assertion,
\* productivity_with > productivity_sans holds: on the stock without any unit
\* of the capital good, one unit of it raises the productivity of the
\* consumer good produced using it, another enabler of that consumer good
\* being held or not.
C36_AssertionHolds ==
    last.op = "value_generated_by_first_order_capital_good" =>
        LET dummy == without_good(pre, last.unit.good)
            productivity_sans ==
                productivity_quantity(default_productivity(last.action.good, dummy))
            productivity_with ==
                productivity_quantity(default_productivity(
                    last.action.good, Stock_add(dummy, GoodsUnit_new(last.unit.good), 1)))
        IN productivity_with # 0 =>
              /\ productivity_with > productivity_sans
              /\ last.ok

C38_ImmediateAddsFreshUnits ==
    /\ (last.op = "act" /\ last.action.kind = "ProduceGood") =>
          LET g == last.action.good
              productivity == default_productivity(g, pre)
          IN productivity.kind = "Immediate" =>
                /\ last.ok
                /\ Qty(stock.stock, GoodsUnit_new(g))
                      = Qty(pre.stock, GoodsUnit_new(g)) + productivity.n
                /\ \A u \in DOMAIN pre.stock \cup DOMAIN stock.stock :
                      (u.good = g /\ u # GoodsUnit_new(g)) =>
                          Qty(stock.stock, u) = Qty(pre.stock, u)
    /\ last.op = "new" => \A n \in {2, 5} :
          LET berries == Stock_add(Stock_default, GoodsUnit_new("Berries"), n)
              held == IF n = 2 THEN berries
                      ELSE Stock_add(berries, GoodsUnit_new("Basket"), 1)
              produced == act_production(held, ProduceGood("Berries")).stock
          IN \A order \in Orders(UsedCapitalUnits(produced, ProduceGood("Berries"))) :
                LET acted == Agent_act(held, ProduceGood("Berries"), order)
                IN /\ ~acted.panic
                   /\ Qty(acted.stock.stock, GoodsUnit_new("Berries"))
                         = IF n = 2 THEN 6 ELSE 13

\* An act that has produced Berries into a stock that held fresh Berries and
\* Berries of another lifetime.
C38_Witness ==
    /\ last.op = "act"
    /\ last.ok
    /\ last.action = ProduceGood("Berries")
    /\ Qty(pre.stock, GoodsUnit_new("Berries")) > 0
    /\ Qty(pre.stock, GoodsUnit("Berries", 1)) > 0
    /\ Qty(stock.stock, GoodsUnit("Berries", 1)) = Qty(pre.stock, GoodsUnit("Berries", 1))
    /\ Qty(stock.stock, GoodsUnit_new("Berries"))
          = Qty(pre.stock, GoodsUnit_new("Berries")) + 4


\* C39: for daily_nutrition >= 1, additional_sustenance(good) does not
\* underflow and is 0 or 1 for every stock and every good: one more unit never
\* shortens the survival that count_timesteps_till_death counts, and lengthens
\* it by one step at most.  The stocks are read where the agent comes to hold
\* them: a valuation leaves the stock it is called on.
C39_AdditionalSustenanceZeroOrOne ==
    /\ last.op \notin ValuationOps =>
          \A daily_nutrition \in 1..DailyNutrition, good \in Good :
          \A before \in count_timesteps_till_death_of(stock, daily_nutrition, None),
             after \in count_timesteps_till_death_of(stock, daily_nutrition, Some(good)) :
              /\ after >= before
              /\ after - before <= 1
    /\ last.op = "additional_sustenance" =>
          /\ last.ok
          /\ last.qty = additional_sustenance(pre, last.action.good)
          /\ last.qty \in {0, 1}

\* additional_sustenance has returned 1 for a unit that completes the food for
\* one more step in a stock that holds food of another lifetime.
C39_Witness ==
    /\ last.op = "additional_sustenance"
    /\ last.qty = 1
    /\ \E u \in ConsumerUnits(pre) :
          u.remaining_lifetime # GoodsUnit_new(last.action.good).remaining_lifetime
    /\ count_timesteps_till_death(pre, Some(last.action.good))
          = count_timesteps_till_death(pre, None) + 1


\* The fewest new units of good a, among the quantities one act produces, that
\* lengthen the survival of the agent by target steps.
units_for_sustenance(s, a, target) ==
    LET enough == {n \in 1..productivity_quantity(default_productivity(a, s)) :
                     count_timesteps_till_death(Stock_add(s, GoodsUnit_new(a), n), None)
                        - count_timesteps_till_death(s, None) >= target}
    IN IF enough = {} THEN None
       ELSE Some(CHOOSE n \in enough : \A m \in enough : n <= m)

\* The times to produce, at the productivity good a has in s, the units of a
\* that lengthen the survival by target steps, one time for each consumer good
\* that can.
equiv_sustenance_times(s, target) ==
    {Rat(unwrap(units_for_sustenance(s, a, target)),
         productivity_quantity(default_productivity(a, s))) :
       a \in {c \in Good : is_consumer(c) /\ units_for_sustenance(s, c, target) # None}}

\* C40: when additional_sustenance(good) > 0, the value
\* marginal_unit_value_of_consumer_good(good) returns is the least, over the
\* consumer goods a, Berries and good included, of the time to produce at the
\* current productivity of a the units of a that lengthen the survival by as
\* many steps: 0.25 without a capital good, 0.1 for Fish and for Berries with
\* a Spear.
C40_LeastTimeToEquivSustenance ==
    /\ (last.op = "marginal_unit_value_of_consumer_good"
        /\ additional_sustenance(pre, last.action.good) > 0) =>
          LET times == equiv_sustenance_times(pre, additional_sustenance(pre, last.action.good))
              value == marginal_unit_value_of_consumer_good(pre, last.action.good)
          IN /\ last.ok
             /\ value \in times
             /\ \A t \in times : ~RatLess(t, value)
    /\ last.op = "new" => \A good \in {"Berries", "Fish"} :
          LET berries == Stock_add(Stock_default, GoodsUnit_new("Berries"), DailyNutrition - 1)
              fish == Stock_add(Stock_default, GoodsUnit_new("Fish"), DailyNutrition - 1)
              spear == Stock_add(berries, GoodsUnit_new("Spear"), 1)
          IN /\ marginal_unit_value_of_consumer_good(berries, good) = Rat(1, 4)
             /\ marginal_unit_value_of_consumer_good(fish, good) = Rat(1, 4)
             /\ marginal_unit_value_of_consumer_good(spear, good) = Rat(1, 10)

\* A unit valued at the time another good takes: Fish, which the agent's
\* capital good makes the quickest food to produce, sets the value of Berries.
C40_Witness ==
    /\ last.op = "marginal_unit_value_of_consumer_good"
    /\ last.ok
    /\ last.action.good = "Berries"
    /\ additional_sustenance(pre, "Berries") > 0
    /\ RatLess(marginal_unit_value_of_consumer_good(pre, "Berries"),
               Rat(1, productivity_quantity(default_productivity("Berries", pre))))


====
